---- MODULE Spec2Model ----
(***************************************************************************)
(* Fetch / cache / retry / batch / orchestrate pipeline of air-tracker.    *)
(*                                                                         *)
(* The client modelled is AeroDataBoxClient of src/swagger_clients.py (the *)
(* one DataOrchestrator uses).  Time is counted in whole seconds; the      *)
(* 0.1 s smoothing sleep at the end of _rate_limit is shorter than one     *)
(* tick and is covered by the Tick action.                                 *)
(***************************************************************************)
EXTENDS Integers, Sequences, FiniteSets, Bags, TLC

\* ---------------------------------------------------------------- bounds
\* rate_limit_window (60 s), max_requests_per_minute (30) and
\* cache_duration_seconds (300 s) are scaled down so that a full window
\* and an expired entry are reachable in a small state space.
rate_limit_window == 2
max_requests_per_minute == 1
cache_duration_seconds == 2
MaxTime == 4
BatchMaxTime == 2
NCodes == 2
NAirports == 3
NStoreCodes == 2
NNames == 2
DayLen == 2
MaxStores == 2
\* DATA_LIMITS of config.py (6 airports of 8, 15 aircraft, 25 flights per
\* schedule) and the 3 delay airports of data_orchestrator.py line 77, scaled
\* down so that every cap is below what the stage before it can yield
max_airports == 2
max_aircraft == 1
max_flights_per_airport == 1
max_delay_airports == 1
MaxFetches == 2

\* ------------------------------------------------------ program constants
max_retries == 3
retry_delay == 1
airports_workers == 4

\* the airport codes of a batch; the task of code c runs in thread c
Codes == 1..NCodes
Threads == Codes
Keys == Codes
\* values of one shape, so that any two can be compared: a payload carries
\* the code it is about (> 0); None and a raised exception carry none
None == [code |-> 0, at |-> 0]
Raised == [code |-> 0 - 1, at |-> 0]
Outcomes == {"200", "404", "429", "500", "neterr", "badjson"}
\* the ways the remote answers one code throughout a batch: a payload, not
\* found, throttled, server error
BatchAnswers == {"200", "404", "429", "500"}

VARIABLES
  now,                 \* wall clock, time.time()
  request_timestamps,  \* self.request_timestamps
  cache,               \* self.cache: dict from cache key to entry
  pc,                  \* per thread: position in _make_request/_rate_limit
  req,                 \* per thread: the request (cache key) being fetched
  attempt,             \* per thread: loop variable of _make_request
  t_now,               \* per thread: local `now` of _rate_limit
  filtered,            \* per thread: the list comprehension's value
  wake,                \* per thread: end of the current time.sleep
  ret,                 \* per thread: value returned by _make_request
  mode,                \* which driver runs the threads
  remote,              \* batch: how the remote answers the requests of each code
  mpc,                 \* batch caller: position in get_multiple_airports
  results,             \* batch caller: the results dict
  collected,           \* batch caller: codes whose future as_completed has yielded, in order
  admitted,            \* history: times at which _rate_limit admitted a call
  recorded,            \* history: timestamps appended by returned _rate_limit calls
  http_sent,           \* history: per thread, HTTP requests sent by the current call
  gate_calls,          \* history: per thread, _rate_limit calls of the current call
  invoked,             \* history: per key, number of fetch_one invocations
  fetched_at,          \* history: per key, time a remote payload was last returned
  last_hit,            \* history: per thread, the current call was a cache hit
  only429,             \* history: per thread, every answer so far was HTTP 429
  answers,             \* history: per thread, the answers to the current call's requests
  stale_miss,          \* history: per thread, the current call found an expired entry
  runner,              \* which run: SmartDataFetcher or DataOrchestrator
  opc,                 \* the run's position
  airports_data,       \* result of get_multiple_airports
  schedules_data,      \* result of get_multiple_schedules / get_multiple_flights
  unique_aircraft,     \* result of _extract_aircraft_from_schedules
  aircraft_data,       \* result of get_multiple_aircraft
  delays_data,         \* result of get_multiple_delays / get_airport_delays
  summary,             \* the dict the run returns
  stages,              \* history: the stages whose fetch was executed
  batch_raised,        \* history: a batch call of the run raised
  schema,              \* storage: columns and constraints of the opened database file
  airport,             \* storage: rows of table airport, in insertion order
  flights,             \* storage: rows of table flights
  airport_delays,      \* storage: rows of table airport_delays
  etl_airport,         \* storage: rows of the airport table upsert_airport writes
  sqlite_sequence,     \* storage: last AUTOINCREMENT id handed out, per table
  store_log,           \* history: the store calls made, in order
  etl_flights,         \* storage: rows of the flights table insert_flight writes
  todo,                \* _process_and_store_all: the records still to be stored
  processing_results,  \* _process_and_store_all: the results dict of counters
  write_log,           \* history: the writes attempted by the run, in order
  raw,                 \* normalisation: the airport payload handed to _store_airport
  normalized,          \* normalisation: the params tuple built from it
  submitted,           \* history: identifiers submitted to each stage of the run
  stats,               \* aerodatabox_client.py: self.stats
  reg                  \* per thread: the value read by a `+= 1` in progress

vars == <<now, request_timestamps, cache, pc, req, attempt, t_now, filtered,
          wake, ret, mode, remote, mpc, results, collected, admitted, recorded,
          http_sent, gate_calls, invoked, fetched_at, last_hit, only429,
          answers, stale_miss,
          runner, opc, airports_data, schedules_data, unique_aircraft,
          aircraft_data, delays_data, summary, stages, batch_raised,
          schema, airport, flights, airport_delays, etl_airport,
          sqlite_sequence, store_log, etl_flights, todo,
          processing_results, write_log, raw, normalized, submitted, stats,
          reg>>

extVars == <<etl_flights, todo, processing_results, write_log, raw,
             normalized, submitted>>
statVars == <<stats, reg>>

storeVars == <<schema, airport, flights, airport_delays, etl_airport,
               sqlite_sequence, store_log>>

runVars == <<runner, opc, airports_data, schedules_data, unique_aircraft,
             aircraft_data, delays_data, summary, stages, batch_raised>>

histVars == <<admitted, recorded, http_sent, gate_calls, invoked, fetched_at,
              last_hit, only429, answers, stale_miss>>

threadVars == <<pc, req, attempt, t_now, filtered, wake, ret>>
batchVars == <<mpc, results, collected>>

\* ---------------------------------------------------------------- helpers
RECURSIVE Pow2(_)
Pow2(n) == IF n = 0 THEN 1 ELSE 2 * Pow2(n - 1)

\* [ts for ts in lst if t - ts < rate_limit_window]
PruneOld(lst, t) == SelectSeq(lst, LAMBDA ts : t - ts < rate_limit_window)

\* the cache key of a request; md5 is taken to be injective
GetCacheKey(k) == <<"AIRPORT_INFO", k>>

\* the body the remote answers with for request k at time t
Payload(k, t) == [code |-> k, at |-> t]

\* cache entry fresh at time t
CacheFresh_inclusive(k, t) ==
  /\ GetCacheKey(k) \in DOMAIN cache
  /\ t - cache[GetCacheKey(k)].timestamp <= cache_duration_seconds

\* lines 70-72: the entry exists and is younger than the TTL
CacheFresh(k, t) ==
  /\ GetCacheKey(k) \in DOMAIN cache
  /\ t - cache[GetCacheKey(k)].timestamp < cache_duration_seconds

\* self.cache[key] = entry
CachePut(key, entry) ==
  [c \in DOMAIN cache \cup {key} |-> IF c = key THEN entry ELSE cache[c]]

Range(s) == {s[i] : i \in DOMAIN s}

Last(s, n) == IF Len(s) <= n THEN s ELSE SubSeq(s, Len(s) - n + 1, Len(s))

\* ------------------------------------------------------------------ Init
NoSummary == [returned |-> FALSE, success |-> FALSE, airports |-> 0 - 1]

\* data_orchestrator.py lines 123-128: the counters of _process_and_store_all
NoResults ==
  [airports_stored |-> 0, flights_stored |-> 0, aircraft_stored |-> 0,
   delays_stored |-> 0]

\* no payload has been handed over, no params tuple has been built
NoPayload == [given |-> FALSE]
NoParams == [built |-> FALSE]

\* nothing has been submitted to any stage
NoneSubmitted ==
  [airports |-> <<>>, schedules |-> <<>>, aircraft |-> <<>>, delays |-> <<>>]

\* database.py lines 18-77: iata_code is UNIQUE in airport, flight_id is the
\* primary key of flights, which has no column `direction`, and
\* airport_delays has no constraint besides its AUTOINCREMENT delay_id
FlightDatabaseSchema == [direction |-> FALSE, etl_iata_unique |-> TRUE]

\* every object as its constructor leaves it
InitObjects ==
  /\ etl_flights = <<>>
  /\ todo = <<>>
  /\ processing_results = NoResults
  /\ write_log = <<>>
  /\ raw = NoPayload
  /\ normalized = NoParams
  /\ submitted = NoneSubmitted
  /\ stats = [total_requests |-> 0, successful |-> 0, failed |-> 0,
              cache_hits |-> 0]
  /\ reg = [t \in Threads |-> 0]
  /\ airport = <<>>
  /\ flights = <<>>
  /\ airport_delays = <<>>
  /\ etl_airport = <<>>
  /\ sqlite_sequence = [airport |-> 0, airport_delays |-> 0]
  /\ store_log = <<>>
  /\ unique_aircraft = {}
  /\ summary = NoSummary
  /\ stages = {}
  /\ batch_raised = FALSE
  /\ remote = [c \in Codes |-> "200"]
  /\ now = 0
  /\ request_timestamps = <<>>
  /\ cache = [c \in {} |-> None]
  /\ pc = [t \in Threads |-> "idle"]
  /\ req = [t \in Threads |-> 1]
  /\ attempt = [t \in Threads |-> 0]
  /\ t_now = [t \in Threads |-> 0]
  /\ filtered = [t \in Threads |-> <<>>]
  /\ wake = [t \in Threads |-> 0]
  /\ ret = [t \in Threads |-> None]
  /\ mpc = "idle"
  /\ results = <<>>
  /\ collected = <<>>
  /\ admitted = <<>>
  /\ recorded = EmptyBag
  /\ http_sent = [t \in Threads |-> 0]
  /\ gate_calls = [t \in Threads |-> 0]
  /\ invoked = [k \in Keys |-> 0]
  /\ fetched_at = [k \in Keys |-> -1]
  /\ last_hit = [t \in Threads |-> FALSE]
  /\ only429 = [t \in Threads |-> TRUE]
  /\ answers = [t \in Threads |-> <<>>]
  /\ stale_miss = [t \in Threads |-> FALSE]

\* no run is in progress and nothing has been fetched
InitCommon ==
  /\ InitObjects
  /\ opc = "idle"
  /\ airports_data = <<>>
  /\ schedules_data = <<>>
  /\ aircraft_data = <<>>
  /\ delays_data = <<>>

\* ------------------------------------------------------------- the clock
Sleeping == \E t \in Threads : wake[t] > now

\* time passes: while something runs, or while a thread sleeps
Tick ==
  /\ now < (IF mode = "batch" THEN BatchMaxTime ELSE MaxTime) \/ Sleeping
  /\ now' = now + 1
  /\ recorded' = [ts \in {x \in BagToSet(recorded) :
                             now' - x < rate_limit_window} |-> recorded[ts]]
  /\ UNCHANGED <<request_timestamps, cache, threadVars, mode, runVars, storeVars, extVars, statVars, remote, batchVars,
                 admitted, http_sent, gate_calls, invoked, fetched_at,
                 last_hit, only429, answers, stale_miss>>

\* ----------------------------------------------------------- _rate_limit
\* line 33: now = time.time()
RateLimitEnter(t) ==
  /\ t_now' = [t_now EXCEPT ![t] = now]
  /\ pc' = [pc EXCEPT ![t] = "rl_filter"]

\* lines 37-39: the list comprehension reads the shared list
RateLimitFilter(t) ==
  /\ pc[t] = "rl_filter"
  /\ filtered' = [filtered EXCEPT ![t] = PruneOld(request_timestamps, t_now[t])]
  /\ pc' = [pc EXCEPT ![t] = "rl_assign"]
  /\ UNCHANGED <<now, request_timestamps, cache, req, attempt, t_now, wake,
                 ret, mode, runVars, storeVars, extVars, statVars, remote, batchVars, histVars>>

\* line 36: self.request_timestamps = <the new list>
RateLimitAssign(t) ==
  /\ pc[t] = "rl_assign"
  /\ request_timestamps' = filtered[t]
  /\ filtered' = [filtered EXCEPT ![t] = <<>>]
  /\ pc' = [pc EXCEPT ![t] = "rl_len"]
  /\ UNCHANGED <<now, cache, req, attempt, t_now, wake, ret, mode, runVars, storeVars, extVars, statVars, remote, batchVars,
                 histVars>>

\* line 42: if len(self.request_timestamps) >= self.max_requests_per_minute
RateLimitLen(t) ==
  /\ pc[t] = "rl_len"
  /\ pc' = [pc EXCEPT ![t] =
              IF Len(request_timestamps) >= max_requests_per_minute
              THEN "rl_index" ELSE "rl_append"]
  /\ UNCHANGED <<now, request_timestamps, cache, req, attempt, t_now,
                 filtered, wake, ret, mode, runVars, storeVars, extVars, statVars, remote, batchVars, histVars>>

\* lines 43-46: sleep_time from request_timestamps[0]; IndexError when another
\* thread has emptied the list since line 42
RateLimitIndex(t) ==
  /\ pc[t] = "rl_index"
  /\ IF request_timestamps = <<>>
     THEN /\ ret' = [ret EXCEPT ![t] = Raised]
          /\ pc' = [pc EXCEPT ![t] = "done"]
          /\ wake' = wake
          /\ t_now' = [t_now EXCEPT ![t] = 0]
     ELSE LET sleep_time == rate_limit_window - (t_now[t] - request_timestamps[1])
          IN /\ wake' = [wake EXCEPT ![t] =
                           IF sleep_time > 0 THEN now + sleep_time ELSE 0]
             /\ pc' = [pc EXCEPT ![t] = "rl_append"]
             /\ UNCHANGED <<ret, t_now>>
  /\ UNCHANGED <<now, request_timestamps, cache, req, attempt,
                 filtered, mode, runVars, storeVars, extVars, statVars, remote, batchVars, histVars>>

\* the timestamp _rate_limit records for the admitted request
RecordedStamp(t) == t_now[t]

\* lines 48-51: self.request_timestamps.append(now); time.sleep(0.1); return
RateLimitAppend(t) ==
  /\ pc[t] = "rl_append"
  /\ wake[t] <= now
  /\ request_timestamps' = Append(request_timestamps, RecordedStamp(t))
  /\ wake' = [wake EXCEPT ![t] = 0]
  /\ t_now' = [t_now EXCEPT ![t] = 0]
  /\ pc' = [pc EXCEPT ![t] = IF mode = "gate" THEN "idle" ELSE "http"]
  /\ admitted' = IF mode = "gate"
                 THEN Last(Append(admitted, now), max_requests_per_minute + 1)
                 ELSE admitted
  /\ recorded' = IF now - RecordedStamp(t) < rate_limit_window
                 THEN recorded (+) SetToBag({RecordedStamp(t)})
                 ELSE recorded
  /\ gate_calls' = [gate_calls EXCEPT ![t] = @ + 1]
  /\ UNCHANGED <<now, cache, req, attempt, filtered, ret, mode, runVars, storeVars, extVars, statVars, remote,
                 batchVars, http_sent, invoked, fetched_at, last_hit, only429, answers, stale_miss>>

\* --------------------------------------------------------- _make_request
\* what a call starts with
BeginCall(t, k) ==
  /\ req' = [req EXCEPT ![t] = k]
  /\ attempt' = [attempt EXCEPT ![t] = 0]
  /\ ret' = [ret EXCEPT ![t] = None]
  /\ pc' = [pc EXCEPT ![t] = "mr_cache"]
  /\ http_sent' = [http_sent EXCEPT ![t] = 0]
  /\ gate_calls' = [gate_calls EXCEPT ![t] = 0]
  /\ last_hit' = [last_hit EXCEPT ![t] = FALSE]
  /\ only429' = [only429 EXCEPT ![t] = TRUE]
  /\ answers' = [answers EXCEPT ![t] = <<>>]
  /\ stale_miss' = [stale_miss EXCEPT ![t] = FALSE]

CacheHit_reversed(k) ==
  /\ GetCacheKey(k) \in DOMAIN cache
  /\ now - cache[GetCacheKey(k)].timestamp >= cache_duration_seconds

\* the cache test of lines 72-74
CacheHit(k) == CacheFresh(k, now)

\* the cache holds an entry for k that is no longer fresh
CacheStale(k) == GetCacheKey(k) \in DOMAIN cache /\ ~CacheHit(k)

\* lines 69-78: cache lookup; a fresh entry is returned at once
MakeRequestCache(t) ==
  /\ pc[t] = "mr_cache"
  /\ mode \in {"fetch", "batch"}
  /\ IF CacheHit(req[t])
     THEN /\ ret' = [ret EXCEPT ![t] = cache[GetCacheKey(req[t])].data]
          /\ pc' = [pc EXCEPT ![t] = "done"]
          /\ last_hit' = [last_hit EXCEPT ![t] = TRUE]
     ELSE /\ pc' = [pc EXCEPT ![t] = "mr_loop"]
          /\ UNCHANGED <<ret, last_hit>>
  /\ stale_miss' = [stale_miss EXCEPT ![t] = CacheStale(req[t])]
  /\ UNCHANGED <<now, request_timestamps, cache, req, attempt, t_now,
                 filtered, wake, mode, runVars, storeVars, extVars, statVars, remote, batchVars,
                 admitted, recorded, http_sent, gate_calls, invoked,
                 fetched_at, only429, answers>>

MoreAttempts_oneMore(t) == attempt[t] <= max_retries

\* the loop test of line 80
MoreAttempts(t) == attempt[t] < max_retries

\* line 80: for attempt in range(max_retries); line 82 enters _rate_limit;
\* line 119: return None when the range is exhausted
MakeRequestLoop(t) ==
  /\ pc[t] = "mr_loop"
  /\ wake[t] <= now
  /\ wake' = [wake EXCEPT ![t] = 0]
  /\ IF MoreAttempts(t)
     THEN /\ RateLimitEnter(t)
          /\ ret' = ret
     ELSE /\ ret' = [ret EXCEPT ![t] = None]
          /\ pc' = [pc EXCEPT ![t] = "done"]
          /\ t_now' = t_now
  /\ UNCHANGED <<now, request_timestamps, cache, req, attempt, filtered,
                 mode, runVars, storeVars, extVars, statVars, remote, batchVars, histVars>>

\* the next iteration, after time.sleep(d) when d > 0
NextAttempt(t, d) ==
  /\ attempt' = [attempt EXCEPT ![t] = @ + 1]
  /\ wake' = [wake EXCEPT ![t] = IF d > 0 THEN now + d ELSE 0]
  /\ pc' = [pc EXCEPT ![t] = "mr_loop"]
  /\ UNCHANGED ret

\* lines 91-94: the cache after the answer o: only a parsed 200 response is
\* stored, with time.time() as its timestamp
CacheAfter(t, o) ==
  IF o = "200"
    THEN CachePut(GetCacheKey(req[t]),
                  [data |-> Payload(req[t], now), timestamp |-> now])
    ELSE cache

Returns_only200(o) == o = "200"

\* the answers after which _make_request returns at once: lines 96 and 106
Returns(o) == o \in {"200", "404"}

Delays_fixed(t, o) == {retry_delay}

\* the sleeps before the next iteration: 2 ** attempt after a 429 (lines
\* 99-103), none after any other HTTP error (lines 107-108), retry_delay unless
\* this was the last attempt after a RequestException (lines 110-114).
\* response.json() raises a RequestException subclass with requests >= 2.27
\* and json.JSONDecodeError (lines 116-117, no sleep) with older versions.
Delays(t, o) ==
  LET afterRequestException ==
        IF attempt[t] < max_retries - 1 THEN retry_delay ELSE 0
  IN  CASE o = "429" -> {Pow2(attempt[t])}
        [] o = "neterr" -> {afterRequestException}
        [] o = "badjson" -> {afterRequestException, 0}
        [] OTHER -> {0}

\* lines 85-117: session.get and the classification of its outcome o
MakeRequestHttp(t, o) ==
  /\ pc[t] = "http"
  /\ http_sent' = [http_sent EXCEPT ![t] = @ + 1]
  /\ only429' = [only429 EXCEPT ![t] = @ /\ o = "429"]
  /\ answers' = [answers EXCEPT ![t] = Append(@, o)]
  /\ cache' = CacheAfter(t, o)
  /\ fetched_at' = IF o = "200" THEN [fetched_at EXCEPT ![req[t]] = now]
                   ELSE fetched_at
  /\ IF Returns(o)
       THEN /\ ret' = [ret EXCEPT ![t] =
                         IF o = "200" THEN Payload(req[t], now) ELSE None]
            /\ pc' = [pc EXCEPT ![t] = "done"]
            /\ UNCHANGED <<attempt, wake>>
       ELSE \E d \in Delays(t, o) : NextAttempt(t, d)
  /\ UNCHANGED <<now, request_timestamps, req, t_now, filtered, mode, runVars,
                 storeVars, extVars, statVars, remote, batchVars, admitted, recorded, gate_calls,
                 invoked, last_hit, stale_miss>>

\* ---------------------------------------------- one caller, gate only
InitGate ==
  InitCommon /\ mode = "gate" /\ runner = "none" /\ schema = FlightDatabaseSchema

\* a caller invokes _rate_limit() directly
Acquire ==
  /\ mode = "gate"
  /\ pc[1] = "idle"
  /\ now < MaxTime
  /\ RateLimitEnter(1)
  /\ UNCHANGED <<now, request_timestamps, cache, req, attempt, filtered,
                 wake, ret, mode, runVars, storeVars, extVars, statVars, remote, batchVars, histVars>>

NextGate ==
  \/ Acquire
  \/ RateLimitFilter(1)
  \/ RateLimitAssign(1)
  \/ RateLimitLen(1)
  \/ RateLimitIndex(1)
  \/ RateLimitAppend(1)
  \/ Tick

SpecGate == InitGate /\ [][NextGate]_vars

\* ------------------------------------------- one caller, whole fetches
InitFetch ==
  InitCommon /\ mode = "fetch" /\ runner = "none" /\ schema = FlightDatabaseSchema

\* get_airport_info(code): a fetch of request k begins
FetchCall(k) ==
  /\ mode \in {"fetch", "aero", "curl"}
  /\ pc[1] = "idle"
  /\ now < MaxTime
  /\ BeginCall(1, k)
  /\ UNCHANGED <<now, request_timestamps, cache, t_now, filtered, wake, mode, runVars, storeVars, extVars, statVars, remote,
                 batchVars, admitted, recorded, invoked, fetched_at>>

\* the caller takes the returned value
FetchReturn ==
  /\ mode \in {"fetch", "aero", "curl"}
  /\ pc[1] = "done"
  /\ pc' = [pc EXCEPT ![1] = "idle"]
  /\ UNCHANGED <<now, request_timestamps, cache, req, attempt, t_now,
                 filtered, wake, ret, mode, runVars, storeVars, extVars, statVars, remote, batchVars, histVars>>

\* what the remote may answer to thread t's request: anything, or in a batch
\* the answer the remote gives for that code throughout the batch
Answers(t) == IF mode = "batch" THEN {remote[req[t]]} ELSE Outcomes

ThreadStep(t) ==
  \/ MakeRequestCache(t)
  \/ MakeRequestLoop(t)
  \/ RateLimitFilter(t)
  \/ RateLimitAssign(t)
  \/ RateLimitLen(t)
  \/ RateLimitIndex(t)
  \/ RateLimitAppend(t)
  \/ \E o \in Answers(t) : MakeRequestHttp(t, o)

NextFetch ==
  \/ \E k \in Keys : FetchCall(k)
  \/ FetchReturn
  \/ ThreadStep(1)
  \/ Tick

SpecFetch == InitFetch /\ [][NextFetch]_vars

\* ------------------------------------ get_multiple_airports (the batch)
InitBatch ==
  InitCommon /\ mode = "batch" /\ runner = "none" /\ schema = FlightDatabaseSchema

\* lines 166-167: every code is submitted to the executor; the remote answers
\* each code in one way while the batch runs
Submit ==
  /\ mode = "batch"
  /\ mpc = "idle"
  /\ mpc' = "collect"
  /\ pc' = [t \in Threads |-> "queued"]
  /\ remote' \in [Codes -> BatchAnswers]
  /\ UNCHANGED <<now, request_timestamps, cache, req, attempt, t_now,
                 filtered, wake, ret, mode, runVars, storeVars, extVars, statVars, results, collected, histVars>>

Running == {t \in Threads : pc[t] \notin {"idle", "queued", "done"}}

\* a pool thread takes the task of code c: fetch_one(c), lines 163-164
TaskStart(c) ==
  /\ pc[c] = "queued"
  /\ Cardinality(Running) < airports_workers
  /\ BeginCall(c, c)
  /\ invoked' = [invoked EXCEPT ![c] = @ + 1]
  /\ UNCHANGED <<now, request_timestamps, cache, t_now, filtered, wake, mode, runVars, storeVars, extVars, statVars, remote,
                 batchVars, admitted, recorded, fetched_at>>

ResultKey_byPosition(c) == Len(collected) + 1

\* the key fetch_one's result is stored under
ResultKey(c) == req[c]

StoreResult_skipNone(code, data) ==
  IF data = None THEN results
  ELSE [k \in DOMAIN results \cup {code} |-> IF k = code THEN data ELSE results[k]]

\* results[code] = data
StoreResult(code, data) ==
  [k \in DOMAIN results \cup {code} |-> IF k = code THEN data ELSE results[k]]

\* lines 168-170: as_completed yields the finished future of code c;
\* future.result() re-raises what the task raised
Collect(c) ==
  /\ mpc = "collect"
  /\ pc[c] = "done"
  /\ c \notin Range(collected)
  /\ collected' = Append(collected, c)
  /\ IF ret[c] = Raised
     THEN /\ mpc' = "unwind"
          /\ results' = results
     ELSE /\ mpc' = mpc
          /\ results' = StoreResult(ResultKey(c), ret[c])
  /\ UNCHANGED <<now, request_timestamps, cache, threadVars, mode, runVars, storeVars, extVars, statVars, remote, histVars>>

\* line 172: return results, once every future has been taken
BatchReturn ==
  /\ mpc = "collect"
  /\ Range(collected) = Codes
  /\ mpc' = "returned"
  /\ UNCHANGED <<now, request_timestamps, cache, threadVars, mode, runVars, storeVars, extVars, statVars, remote, results,
                 collected, histVars>>

\* the with block's exit waits for the remaining tasks, then the exception
\* leaves get_multiple_airports
BatchRaise ==
  /\ mpc = "unwind"
  /\ \A t \in Threads : pc[t] = "done"
  /\ mpc' = "raised"
  /\ UNCHANGED <<now, request_timestamps, cache, threadVars, mode, runVars, storeVars, extVars, statVars, remote, results,
                 collected, histVars>>

NextBatch ==
  \/ Submit
  \/ \E c \in Codes : TaskStart(c)
  \/ \E t \in Threads : ThreadStep(t)
  \/ \E c \in Codes : Collect(c)
  \/ BatchReturn
  \/ BatchRaise
  \/ Tick

SpecBatch == InitBatch /\ [][NextBatch]_vars

clientVars_noStore == <<now, request_timestamps, cache, threadVars, mode,
                       remote, batchVars, histVars, extVars, statVars>>
clientVars == <<clientVars_noStore, storeVars>>

\* ------------------------------------------------------------- the runs
\* What a batch call hands to a run.  A fetched value is a record
\* [kind, data]: kind "none" is None (the fetch failed), "dict" a JSON
\* object, "nodata" an object without a 'data' key, "nulldata" an object
\* whose 'data' is null, "list" an object whose 'data' is the list `data`.
Min(a, b) == IF a <= b THEN a ELSE b
Take(seq, n) == SubSeq(seq, 1, Min(n, Len(seq)))

NoneValue == [kind |-> "none", data |-> <<>>]
DictValue == [kind |-> "dict", data |-> <<>>]

\* flights of a schedule: the 'aircraft' entry is absent, null or an object
\* with a registration; the 'number' entry is absent or a flight number
FlightShapes ==
  { [aircraft |-> "A", number |-> "F1"],
    [aircraft |-> "B", number |-> "F1"],
    [aircraft |-> "null", number |-> "F1"],
    [aircraft |-> "absent", number |-> "absent"] }

ScheduleValues ==
  { [kind |-> "nodata", data |-> <<>>], [kind |-> "nulldata", data |-> <<>>],
    [kind |-> "list", data |-> <<>>] }
  \cup { [kind |-> "list", data |-> <<f>>] : f \in FlightShapes }
  \cup { [kind |-> "list",
          data |-> <<[aircraft |-> "A", number |-> "F1"],
                     [aircraft |-> "B", number |-> "F2"]>>],
         [kind |-> "list",
          data |-> <<[aircraft |-> "B", number |-> "F2"],
                     [aircraft |-> "null", number |-> "F1"]>>] }

\* `if data`
Truthy(v) == v.kind # "none"

\* `schedule and 'data' in schedule`
HasData(v) == v.kind \in {"nulldata", "list"}

\* the maps a get_multiple_* call over ids can return: every id is a key,
\* a failed fetch maps to None
BatchResults(ids, values) == [ids -> values \cup {NoneValue}]

\* config.py: AIRPORT_CODES
AIRPORT_CODES == [i \in 1..NAirports |-> i]

\* data_orchestrator.py line 48
airports_to_process == Take(AIRPORT_CODES, max_airports)

\* data_fetcher.py line 33
dashboard_airports == Take(AIRPORT_CODES, 3)

\* data_orchestrator.py lines 56-60
RECURSIVE ScheduleRequests(_, _)
ScheduleRequests(codes, acc) ==
  IF codes = <<>> THEN acc
  ELSE LET withDep == Append(acc, <<Head(codes), "departures">>)
           withArr == IF Len(withDep) < 4
                      THEN Append(withDep, <<Head(codes), "arrivals">>)
                      ELSE withDep
       IN ScheduleRequests(Tail(codes), withArr)

schedule_requests == ScheduleRequests(airports_to_process, <<>>)

\* data_orchestrator.py line 77
delay_airports == Take(airports_to_process, max_delay_airports)

\* _extract_aircraft_from_schedules raises: schedule['data'][:n] on a null
\* 'data' (TypeError), aircraft.get('reg') on a null 'aircraft' (AttributeError)
ExtractRaises(sched) ==
  \E k \in DOMAIN sched :
    /\ HasData(sched[k])
    /\ \/ sched[k].kind = "nulldata"
       \/ \E i \in DOMAIN Take(sched[k].data, max_flights_per_airport) :
            sched[k].data[i].aircraft = "null"

\* _extract_aircraft_from_schedules, lines 104-118
ExtractAircraft(sched) ==
  { sched[k].data[i].aircraft :
      <<k, i>> \in { <<k2, i2>> \in (DOMAIN sched) \X (1..max_flights_per_airport) :
                      /\ HasData(sched[k2])
                      /\ sched[k2].kind = "list"
                      /\ i2 \in DOMAIN sched[k2].data
                      /\ sched[k2].data[i2].aircraft \notin {"absent", "null"} } }

\* number of fetched values that are payloads
AirportCount(data) == Cardinality({c \in DOMAIN data : Truthy(data[c])})



\* ------------------------------ aerodatabox_client.py: one caller, fetches
\* FETCH_STRATEGY is imported from config, which does not define it: the
\* number of attempts is the default of the retry policy
FETCH_STRATEGY_max_retries == 3

\* aerodatabox_client.py lines 56-63: cache lookup, then _rate_limit() once,
\* before the loop
AeroCache(t) ==
  /\ pc[t] = "mr_cache"
  /\ mode = "aero"
  /\ IF CacheHit(req[t])
     THEN /\ ret' = [ret EXCEPT ![t] = cache[GetCacheKey(req[t])].data]
          /\ pc' = [pc EXCEPT ![t] = "done"]
          /\ last_hit' = [last_hit EXCEPT ![t] = TRUE]
          /\ t_now' = t_now
     ELSE /\ RateLimitEnter(t)
          /\ UNCHANGED <<ret, last_hit>>
  /\ stale_miss' = [stale_miss EXCEPT ![t] = CacheStale(req[t])]
  /\ UNCHANGED <<now, request_timestamps, cache, req, attempt,
                 filtered, wake, mode, runVars, storeVars, extVars, statVars, remote, batchVars,
                 admitted, recorded, http_sent, gate_calls, invoked,
                 fetched_at, only429, answers>>

\* aerodatabox_client.py line 65 and lines 99-101: the next iteration sends
\* the request without another _rate_limit()
AeroLoop(t) ==
  /\ pc[t] = "mr_loop"
  /\ mode = "aero"
  /\ wake[t] <= now
  /\ wake' = [wake EXCEPT ![t] = 0]
  /\ IF attempt[t] < FETCH_STRATEGY_max_retries
     THEN /\ pc' = [pc EXCEPT ![t] = "http"]
          /\ ret' = ret
     ELSE /\ ret' = [ret EXCEPT ![t] = None]
          /\ pc' = [pc EXCEPT ![t] = "done"]
  /\ UNCHANGED <<now, request_timestamps, cache, req, attempt, t_now,
                 filtered, mode, runVars, storeVars, extVars, statVars, remote, batchVars,
                 histVars>>

\* aerodatabox_client.py lines 66-97: as in swagger_clients.py, but a
\* json.JSONDecodeError that is no RequestException is not caught and leaves
\* _make_request
AeroHttp(t, o) ==
  /\ mode = "aero"
  /\ \/ /\ o # "badjson"
        /\ MakeRequestHttp(t, o)
     \/ /\ o = "badjson"
        /\ pc[t] = "http"
        /\ http_sent' = [http_sent EXCEPT ![t] = @ + 1]
        /\ only429' = [only429 EXCEPT ![t] = FALSE]
        /\ answers' = [answers EXCEPT ![t] = Append(@, o)]
        /\ \/ NextAttempt(t, IF attempt[t] < FETCH_STRATEGY_max_retries - 1
                             THEN 1 ELSE 0)
           \/ /\ ret' = [ret EXCEPT ![t] = Raised]
              /\ pc' = [pc EXCEPT ![t] = "done"]
              /\ UNCHANGED <<attempt, wake>>
        /\ UNCHANGED <<now, request_timestamps, cache, req, t_now, filtered,
                       mode, runVars, storeVars, extVars, statVars, remote, batchVars, admitted,
                       recorded, gate_calls, invoked, fetched_at, last_hit,
                       stale_miss>>

InitAero ==
  InitCommon /\ mode = "aero" /\ runner = "none" /\ schema = FlightDatabaseSchema

NextAero ==
  \/ \E k \in Keys : FetchCall(k)
  \/ FetchReturn
  \/ AeroCache(1)
  \/ AeroLoop(1)
  \/ RateLimitFilter(1)
  \/ RateLimitAssign(1)
  \/ RateLimitLen(1)
  \/ RateLimitIndex(1)
  \/ RateLimitAppend(1)
  \/ \E o \in Outcomes : AeroHttp(1, o)
  \/ Tick

SpecAero == InitAero /\ [][NextAero]_vars

\* ------------------------------------ curl_fetcher.py: one caller, fetches
\* the body of an answer that is not a 200: the remote's error document
ErrorBody(k, t) == [code |-> 0 - 2, at |-> t]

\* curl_fetcher.py lines 33-40
CurlCache(t) ==
  /\ pc[t] = "mr_cache"
  /\ mode = "curl"
  /\ IF CacheHit(req[t])
     THEN /\ ret' = [ret EXCEPT ![t] = cache[GetCacheKey(req[t])].data]
          /\ pc' = [pc EXCEPT ![t] = "done"]
          /\ last_hit' = [last_hit EXCEPT ![t] = TRUE]
     ELSE /\ pc' = [pc EXCEPT ![t] = "curl"]
          /\ UNCHANGED <<ret, last_hit>>
  /\ stale_miss' = [stale_miss EXCEPT ![t] = CacheStale(req[t])]
  /\ UNCHANGED <<now, request_timestamps, cache, req, attempt, t_now,
                 filtered, wake, mode, runVars, storeVars, extVars, statVars, remote, batchVars,
                 admitted, recorded, http_sent, gate_calls, invoked,
                 fetched_at, only429, answers>>

\* curl_fetcher.py lines 42-80: curl is run without --fail, so it exits 0
\* whenever the remote answered, whatever the HTTP status; the body is
\* cached and returned when json.loads accepts it.  parses: the body of a
\* 404, 429 or 5xx answer is a JSON document
RunCurl(t, o, parses) ==
  /\ pc[t] = "curl"
  /\ mode = "curl"
  /\ o = "200" => parses
  /\ o \in {"badjson", "neterr"} => ~parses
  /\ http_sent' = [http_sent EXCEPT ![t] = @ + 1]
  /\ only429' = [only429 EXCEPT ![t] = @ /\ o = "429"]
  /\ answers' = [answers EXCEPT ![t] = Append(@, o)]
  /\ fetched_at' = IF o = "200" THEN [fetched_at EXCEPT ![req[t]] = now]
                   ELSE fetched_at
  /\ LET returncode == IF o = "neterr" THEN 1 ELSE 0
         data == IF o = "200" THEN Payload(req[t], now)
                 ELSE ErrorBody(req[t], now)
     IN  IF returncode = 0 /\ parses
           THEN /\ cache' = CachePut(GetCacheKey(req[t]),
                                     [data |-> data, timestamp |-> now])
                /\ ret' = [ret EXCEPT ![t] = data]
           ELSE /\ cache' = cache
                /\ ret' = [ret EXCEPT ![t] = None]
  /\ pc' = [pc EXCEPT ![t] = "done"]
  /\ UNCHANGED <<now, request_timestamps, req, attempt, t_now, filtered, wake,
                 mode, runVars, storeVars, extVars, statVars, remote, batchVars, admitted,
                 recorded, gate_calls, invoked, last_hit, stale_miss>>

InitCurl ==
  InitCommon /\ mode = "curl" /\ runner = "none" /\ schema = FlightDatabaseSchema

NextCurl ==
  \/ \E k \in Keys : FetchCall(k)
  \/ FetchReturn
  \/ CurlCache(1)
  \/ \E o \in Outcomes, parses \in BOOLEAN : RunCurl(1, o, parses)
  \/ Tick

SpecCurl == InitCurl /\ [][NextCurl]_vars

\* ------------------------------------------------------------ the storage
\* Rows are records; a table is the sequence of its rows in insertion order.
StoreCodes == 1..NStoreCodes
Names == 1..NNames

\* SQL NULL / Python None in a column or a JSON field; a key missing from the
\* JSON object
Null == 0 - 1
Absent == 0

\* an airport payload: None, or a dict whose 'iata' is missing, null or a code
NoData == [present |-> FALSE, iata |-> Absent, name |-> Absent]
AirportPayloads ==
  {NoData} \cup [present : {TRUE}, iata : {Absent, Null} \cup StoreCodes,
                 name : Names]

\* a flight of a schedule: 'number' missing or present
FlightPayloads == [number : {Absent, 1}, scheduled : 1..2, status : 1..2]

\* a delay payload: None, or statistics
DelayPayloads == [present : BOOLEAN, total : 1..2]

\* DATE('now') of the SQL statements
Date(t) == t \div DayLen

\* CREATE TABLE IF NOT EXISTS keeps the tables of a database file that
\* exists already (quick_setup.py lines 82-96 create flights with a column
\* `direction`); the tables upsert_airport writes are created from
\* sql/create_tables.sql
Schemas == [direction : BOOLEAN, etl_iata_unique : BOOLEAN]

NextId(table) == sqlite_sequence[table] + 1

Logged(kind, by, code, data) ==
  store_log' = Append(store_log,
                      [kind |-> kind, by |-> by, code |-> code, data |-> data])

\* airport.iata_code is UNIQUE: rows the new row conflicts with (NULLs never
\* conflict)
AirportConflict(r, row) == row.iata_code # Null /\ r.iata_code = row.iata_code

AirportInsertOrReplace_keep(table, row) == Append(table, row)

\* INSERT OR REPLACE INTO airport: the conflicting rows are deleted, the new
\* row is inserted
AirportInsertOrReplace(table, row) ==
  Append(SelectSeq(table, LAMBDA r : ~AirportConflict(r, row)), row)

\* data_fetcher.py lines 220-267
StoreAirport(code, data) ==
  /\ mode = "store"
  /\ Len(store_log) < MaxStores
  /\ Logged("airport", "fetcher", code, data)
  /\ IF ~data.present
       THEN UNCHANGED <<airport, sqlite_sequence>>
       ELSE /\ airport' = AirportInsertOrReplace(airport,
                 [airport_id |-> NextId("airport"),
                  iata_code |-> IF data.iata \in StoreCodes THEN data.iata
                                ELSE code,
                  name |-> data.name])
            /\ sqlite_sequence' =
                 [sqlite_sequence EXCEPT !.airport = NextId("airport")]
  /\ UNCHANGED <<clientVars_noStore, runVars, schema, flights, airport_delays,
                 etl_airport>>

\* data_orchestrator.py lines 131-134 and 158-183: data.get('iata', code) is
\* the code only when the key is missing
OrchStoreAirport(code, data) ==
  /\ mode = "store"
  /\ Len(store_log) < MaxStores
  /\ data.present
  /\ Logged("airport", "orchestrator", code, data)
  /\ airport' = AirportInsertOrReplace(airport,
       [airport_id |-> NextId("airport"),
        iata_code |-> IF data.iata = Absent THEN code ELSE data.iata,
        name |-> data.name])
  /\ sqlite_sequence' = [sqlite_sequence EXCEPT !.airport = NextId("airport")]
  /\ UNCHANGED <<clientVars_noStore, runVars, schema, flights, airport_delays,
                 etl_airport>>

\* INSERT OR REPLACE INTO flights: flight_id is the primary key
FlightInsertOrReplace(table, row) ==
  Append(SelectSeq(table, LAMBDA r : r.flight_id # row.flight_id), row)

\* f"{flight_number}_{datetime.now().strftime('%Y%m%d%H%M%S')}"
FlightId(number, t) == <<number, t>>

FlightRow(f, t) ==
  [flight_id |-> FlightId(f.number, t), flight_number |-> f.number,
   scheduled_departure |-> f.scheduled, status |-> f.status]

\* data_fetcher.py lines 269-322
StoreFlight(f) ==
  /\ mode = "store"
  /\ Len(store_log) < MaxStores
  /\ Logged("flight", "fetcher", f.number, f)
  /\ flights' = IF f.number = Absent THEN flights
                ELSE FlightInsertOrReplace(flights, FlightRow(f, now))
  /\ UNCHANGED <<clientVars_noStore, runVars, schema, airport, airport_delays,
                 etl_airport, sqlite_sequence>>

\* data_orchestrator.py lines 185-232: the statement names the column
\* `direction`; without it execute fails and execute_query returns None
OrchStoreFlight(f) ==
  /\ mode = "store"
  /\ Len(store_log) < MaxStores
  /\ Logged("flight", "orchestrator", f.number, f)
  /\ flights' = IF f.number = Absent \/ ~schema.direction THEN flights
                ELSE FlightInsertOrReplace(flights, FlightRow(f, now))
  /\ UNCHANGED <<clientVars_noStore, runVars, schema, airport, airport_delays,
                 etl_airport, sqlite_sequence>>

\* INSERT OR REPLACE INTO airport_delays: only delay_id, which the statement
\* does not supply, is constrained, so no row ever conflicts
DelaysInsertOrReplace(table, row) ==
  Append(SelectSeq(table, LAMBDA r : r.delay_id # row.delay_id), row)

\* data_fetcher.py lines 324-371 (by = "fetcher") and data_orchestrator.py
\* lines 151-154 and 256-283 (by = "orchestrator")
StoreDelays(by, code, data) ==
  /\ mode = "store"
  /\ Len(store_log) < MaxStores
  /\ by = "orchestrator" => data.present
  /\ Logged("delays", by, code, data)
  /\ IF ~data.present
       THEN UNCHANGED <<airport_delays, sqlite_sequence>>
       ELSE /\ airport_delays' = DelaysInsertOrReplace(airport_delays,
                 [delay_id |-> NextId("airport_delays"),
                  airport_iata |-> code, delay_date |-> Date(now),
                  total_flights |-> data.total])
            /\ sqlite_sequence' = [sqlite_sequence EXCEPT
                 !.airport_delays = NextId("airport_delays")]
  /\ UNCHANGED <<clientVars_noStore, runVars, schema, airport, flights,
                 etl_airport>>

\* INSERT OR IGNORE INTO airport: the new row is dropped when it conflicts
InsertOrIgnore(table, row) ==
  IF schema.etl_iata_unique /\ \E i \in DOMAIN table : AirportConflict(table[i], row)
    THEN table
    ELSE Append(table, row)

\* src/etl.py lines 29-56: _safe_get_str(ap, "iata") or
\* _safe_get_str(ap, "iataCode") is None for a missing or null code
UpsertAirport(ap) ==
  /\ mode = "store"
  /\ Len(store_log) < MaxStores
  /\ ap.present
  /\ Logged("etl_airport", "etl", ap.iata, ap)
  /\ etl_airport' = InsertOrIgnore(etl_airport,
       [iata_code |-> IF ap.iata \in StoreCodes THEN ap.iata ELSE Null,
        name |-> ap.name])
  /\ UNCHANGED <<clientVars_noStore, runVars, schema, airport, flights,
                 airport_delays, sqlite_sequence>>

\* a raw flight handed to insert_flight: an identifier (flightId, id, hexId or
\* uniqueId), a number (number or flightNumber) and a callsign, each missing
\* or present
EtlFlightPayloads ==
  [id : {Absent, 1}, number : {Absent, 1}, callsign : {Absent, 2}]

\* Python's `a or b` over .get() results: the first value that is there
FirstOf(a, b) == IF a # Absent THEN a ELSE IF b # Absent THEN b ELSE Null

\* INSERT OR REPLACE INTO flights with flight_id TEXT PRIMARY KEY: the key
\* column of an ordinary table takes NULL, and NULLs never conflict
EtlFlightInsertOrReplace(table, row) ==
  IF row.flight_id = Null THEN Append(table, row)
  ELSE FlightInsertOrReplace(table, row)

\* src/etl.py lines 58-114: no field is required; what is missing is
\* inserted as NULL
InsertFlight(f) ==
  /\ mode = "store"
  /\ Len(store_log) < MaxStores
  /\ Logged("etl_flight", "etl", f.number, f)
  /\ etl_flights' = EtlFlightInsertOrReplace(etl_flights,
       [flight_id |-> FirstOf(f.id, f.callsign),
        flight_number |-> FirstOf(f.number, f.callsign)])
  /\ UNCHANGED <<now, request_timestamps, cache, threadVars, mode, remote,
                 batchVars, histVars, statVars, runVars, schema, airport,
                 flights, airport_delays, etl_airport, sqlite_sequence, todo,
                 processing_results, write_log, raw, normalized, submitted>>

InitStore ==
  /\ InitCommon
  /\ mode = "store"
  /\ runner = "none"
  /\ schema \in Schemas

NextStore ==
  \/ Tick
  \/ \E c \in StoreCodes, d \in AirportPayloads : StoreAirport(c, d)
  \/ \E c \in StoreCodes, d \in AirportPayloads : OrchStoreAirport(c, d)
  \/ \E f \in FlightPayloads : StoreFlight(f)
  \/ \E f \in FlightPayloads : OrchStoreFlight(f)
  \/ \E by \in {"fetcher", "orchestrator"}, c \in StoreCodes,
        d \in DelayPayloads : StoreDelays(by, c, d)
  \/ \E ap \in AirportPayloads : UpsertAirport(ap)
  \/ \E f \in EtlFlightPayloads : InsertFlight(f)

SpecStore == InitStore /\ [][NextStore]_vars

\* ------------------------------------------------ _process_and_store_all
\* the elements of a finite set, in the order a dict yields them
RECURSIVE SeqOf(_)
SeqOf(S) ==
  IF S = {} THEN <<>>
  ELSE LET x == CHOOSE y \in S : TRUE IN <<x>> \o SeqOf(S \ {x})

\* list(S): the elements of a set in any order
Orders(S) ==
  {q \in [1..Cardinality(S) -> S] : \A i, j \in DOMAIN q : q[i] = q[j] => i = j}

RECURSIVE Concat(_)
Concat(ss) == IF ss = <<>> THEN <<>> ELSE Head(ss) \o Concat(Tail(ss))

\* data_orchestrator.py lines 131-134, 145-148 and 151-154: the (key, data)
\* items of a fetched map that pass `if data`
TruthyItems(kind, data) ==
  LET keys == SeqOf({k \in DOMAIN data : Truthy(data[k])})
  IN  [i \in DOMAIN keys |-> [kind |-> kind, key |-> keys[i], data |-> data[keys[i]]]]

\* data_orchestrator.py lines 137-142: the flights of every schedule that has
\* a 'data' list, at most max_flights_per_airport of each
FlightItems(sched) ==
  LET keys == SeqOf({k \in DOMAIN sched : HasData(sched[k])})
  IN  Concat([i \in DOMAIN keys |->
                LET fl == Take(sched[keys[i]].data, max_flights_per_airport)
                IN  [j \in DOMAIN fl |->
                       [kind |-> "flight", key |-> keys[i], data |-> fl[j]]]])

\* the records _process_and_store_all goes through, in its order
ProcessRecords(ad, sd, acd, dd) ==
  TruthyItems("airport", ad) \o FlightItems(sd) \o TruthyItems("aircraft", acd)
    \o TruthyItems("delays", dd)

\* the counter of results that the loop over records of a kind increments
CounterOf(kind) ==
  CASE kind = "airport" -> "airports_stored"
    [] kind = "flight" -> "flights_stored"
    [] kind = "aircraft" -> "aircraft_stored"
    [] kind = "delays" -> "delays_stored"

\* _store_flight returns early for a flight without 'number'; .get on a null
\* 'aircraft' raises inside its try block
FlightSkipped(f) == f.number = "absent" \/ f.aircraft = "null"

\* whether execute may succeed: in a run the storage works; the statement of
\* _store_flight names the column `direction`
WriteOutcomes(r) ==
  IF r.kind = "flight" /\ (FlightSkipped(r.data) \/ ~schema.direction)
    THEN {FALSE}
    ELSE IF mode = "process" THEN BOOLEAN ELSE {TRUE}

Remaining_abort(records, written) == IF written THEN Tail(records) ELSE <<>>

\* database.py lines 102-104 and the except clauses of _store_*: an error of
\* the write is caught, the loops of lines 131-154 go on with the next record
Remaining(records, written) == Tail(records)

\* data_orchestrator.py line 123-128: the call begins
ProcessBegin ==
  /\ mode \in {"process", "run"}
  /\ runner = "orchestrator"
  /\ opc = "store"
  /\ opc' = "storing"
  /\ processing_results' = NoResults
  /\ todo' = ProcessRecords(airports_data, schedules_data, aircraft_data,
                            delays_data)
  /\ UNCHANGED <<now, request_timestamps, cache, threadVars, mode, remote,
                 batchVars, histVars, statVars, storeVars, etl_flights,
                 write_log, raw, normalized, submitted, runner, airports_data,
                 schedules_data, unique_aircraft, aircraft_data, delays_data,
                 summary, stages, batch_raised>>

\* data_orchestrator.py lines 131-154: one iteration: _store_* is called for
\* the record, then the counter is incremented
ProcessRecord(written) ==
  /\ opc = "storing"
  /\ todo # <<>>
  /\ LET r == Head(todo)
     IN  /\ written \in WriteOutcomes(r)
         /\ airport' =
              IF r.kind = "airport" /\ written
                THEN AirportInsertOrReplace(airport,
                       [airport_id |-> sqlite_sequence.airport + 1,
                        iata_code |-> r.key, name |-> 0])
                ELSE airport
         /\ flights' =
              IF r.kind = "flight" /\ written
                THEN FlightInsertOrReplace(flights,
                       [flight_id |-> <<r.data.number, now>>,
                        flight_number |-> r.data.number,
                        scheduled_departure |-> 0, status |-> 0])
                ELSE flights
         /\ airport_delays' =
              IF r.kind = "delays" /\ written
                THEN DelaysInsertOrReplace(airport_delays,
                       [delay_id |-> sqlite_sequence.airport_delays + 1,
                        airport_iata |-> r.key, delay_date |-> now \div DayLen,
                        total_flights |-> 0])
                ELSE airport_delays
         /\ sqlite_sequence' =
              IF written /\ r.kind \in {"airport", "delays"}
                THEN [sqlite_sequence EXCEPT
                        ![IF r.kind = "airport" THEN "airport"
                          ELSE "airport_delays"] = @ + 1]
                ELSE sqlite_sequence
         /\ processing_results' =
              [processing_results EXCEPT ![CounterOf(r.kind)] = @ + 1]
         /\ write_log' = Append(write_log,
                                [kind |-> r.kind, key |-> r.key,
                                 written |-> written])
         /\ todo' = Remaining(todo, written)
  /\ UNCHANGED <<now, request_timestamps, cache, threadVars, mode, remote,
                 batchVars, histVars, statVars, schema, etl_airport, store_log,
                 etl_flights, raw, normalized, submitted, runVars>>

\* data_orchestrator.py line 156: return results
ProcessReturn ==
  /\ mode = "process"
  /\ opc = "storing"
  /\ todo = <<>>
  /\ opc' = "done"
  /\ UNCHANGED <<clientVars, runner, airports_data, schedules_data,
                 unique_aircraft, aircraft_data, delays_data, summary, stages,
                 batch_raised>>

\* the schedules that reach _process_and_store_all: those on which
\* _extract_aircraft_from_schedules did not raise
StorableSchedules ==
  {v \in ScheduleValues :
     /\ v.kind # "nulldata"
     /\ \A i \in DOMAIN v.data : v.data[i].aircraft # "null"}

InitProcess ==
  /\ InitObjects
  /\ mode = "process"
  /\ runner = "orchestrator"
  /\ schema \in Schemas
  /\ opc = "store"
  /\ airports_data \in BatchResults(Range(airports_to_process), {DictValue})
  /\ schedules_data \in BatchResults(Range(Take(schedule_requests, 2)),
                                     StorableSchedules)
  /\ aircraft_data \in {<<>>} \cup BatchResults({"A"}, {DictValue})
  /\ delays_data \in BatchResults({airports_to_process[1]}, {DictValue})

NextProcess ==
  \/ ProcessBegin
  \/ \E written \in BOOLEAN : ProcessRecord(written)
  \/ ProcessReturn

SpecProcess == InitProcess /\ [][NextProcess]_vars

\* ------------------------------------------------ the runs: the stages
\* the variables no run touches
runIdle == <<now, request_timestamps, cache, threadVars, mode, remote,
             batchVars, histVars, statVars, schema, etl_airport, store_log,
             etl_flights, raw, normalized>>

\* the codes of a fetched map whose value passes `if data`, in dict order
StoredCodes(data) == SeqOf({c \in DOMAIN data : Truthy(data[c])})

\* _store_airport for each code of codes, in order
RECURSIVE InsertAirports(_, _, _)
InsertAirports(table, id, codes) ==
  IF codes = <<>> THEN table
  ELSE InsertAirports(
         AirportInsertOrReplace(table, [airport_id |-> id + 1,
                                        iata_code |-> Head(codes), name |-> 0]),
         id + 1, Tail(codes))

\* _store_flight for each flight of fl, in order
RECURSIVE InsertFlights(_, _, _)
InsertFlights(table, fl, t) ==
  IF fl = <<>> THEN table
  ELSE InsertFlights(
         IF FlightSkipped(Head(fl)) THEN table
         ELSE FlightInsertOrReplace(table,
                [flight_id |-> <<Head(fl).number, t>>,
                 flight_number |-> Head(fl).number,
                 scheduled_departure |-> 0, status |-> 0]),
         Tail(fl), t)

\* the write_log entries of the writes of one kind
WriteEntries(kind, keys) ==
  [i \in DOMAIN keys |-> [kind |-> kind, key |-> keys[i], written |-> TRUE]]

\* the storage variables of a run
runStore == <<airport, flights, airport_delays, sqlite_sequence, todo,
              processing_results, write_log>>

\* data_fetcher.py lines 71-78: the flights of the schedules ks, at most 15
\* of each, with the schedule they belong to
FetcherFlightItems(sched, ks) ==
  Concat([i \in DOMAIN ks |->
            LET fl == Take(sched[ks[i]].data, 15)
            IN  [j \in DOMAIN fl |-> [key |-> ks[i], data |-> fl[j]]]])

InitRun ==
  /\ InitCommon
  /\ mode = "run"
  /\ runner \in {"fetcher", "orchestrator"}
  /\ schema = FlightDatabaseSchema

\* the run is called
RunStart ==
  /\ mode = "run"
  /\ opc = "idle"
  /\ opc' = "airports"
  /\ UNCHANGED <<clientVars, runner, airports_data, schedules_data,
                 unique_aircraft, aircraft_data, delays_data, summary, stages,
                 batch_raised>>

\* an exception leaves fetch_all_data_strategically (no handler there)
OrchRaise ==
  /\ opc' = "raised"
  /\ UNCHANGED summary

\* data_orchestrator.py lines 47-53
OrchAirports ==
  /\ runner = "orchestrator"
  /\ opc = "airports"
  /\ stages' = stages \cup {"airports"}
  /\ submitted' = [submitted EXCEPT !.airports = airports_to_process]
  /\ \/ /\ airports_data' \in BatchResults(Range(airports_to_process), {DictValue})
        /\ opc' = "schedules"
        /\ UNCHANGED <<summary, batch_raised>>
     \/ /\ batch_raised' = TRUE
        /\ OrchRaise
        /\ UNCHANGED airports_data
  /\ UNCHANGED <<runIdle, runStore, runner, schedules_data, unique_aircraft,
                 aircraft_data, delays_data>>

\* data_orchestrator.py lines 55-64
OrchSchedules ==
  /\ runner = "orchestrator"
  /\ opc = "schedules"
  /\ stages' = stages \cup {"schedules"}
  /\ submitted' = [submitted EXCEPT !.schedules = schedule_requests]
  /\ \/ /\ schedules_data' \in BatchResults(Range(schedule_requests), ScheduleValues)
        /\ opc' = "extract"
        /\ UNCHANGED <<summary, batch_raised>>
     \/ /\ batch_raised' = TRUE
        /\ OrchRaise
        /\ UNCHANGED schedules_data
  /\ UNCHANGED <<runIdle, runStore, runner, airports_data, unique_aircraft,
                 aircraft_data, delays_data>>

\* data_orchestrator.py lines 66-68
OrchExtract ==
  /\ runner = "orchestrator"
  /\ opc = "extract"
  /\ IF ExtractRaises(schedules_data)
     THEN /\ OrchRaise
          /\ UNCHANGED unique_aircraft
     ELSE /\ unique_aircraft' = ExtractAircraft(schedules_data)
          /\ opc' = IF unique_aircraft' # {} THEN "aircraft" ELSE "delays"
          /\ UNCHANGED summary
  /\ UNCHANGED <<clientVars, runner, airports_data, schedules_data,
                 aircraft_data, delays_data, stages, batch_raised>>

aircraft_to_fetch_all(listed) == listed

\* data_orchestrator.py line 72: list(unique_aircraft)[:max_aircraft]
aircraft_to_fetch(listed) == Take(listed, max_aircraft)

\* data_orchestrator.py lines 70-74; list() yields the set in some order
OrchAircraft ==
  /\ runner = "orchestrator"
  /\ opc = "aircraft"
  /\ stages' = stages \cup {"aircraft"}
  /\ \E listed \in Orders(unique_aircraft) :
       /\ submitted' = [submitted EXCEPT !.aircraft = aircraft_to_fetch(listed)]
       /\ \/ /\ aircraft_data' \in
                  BatchResults(Range(aircraft_to_fetch(listed)), {DictValue})
             /\ opc' = "delays"
             /\ UNCHANGED <<summary, batch_raised>>
          \/ /\ batch_raised' = TRUE
             /\ OrchRaise
             /\ UNCHANGED aircraft_data
  /\ UNCHANGED <<runIdle, runStore, runner, airports_data, schedules_data,
                 unique_aircraft, delays_data>>

\* data_orchestrator.py lines 76-79
OrchDelays ==
  /\ runner = "orchestrator"
  /\ opc = "delays"
  /\ stages' = stages \cup {"delays"}
  /\ submitted' = [submitted EXCEPT !.delays = delay_airports]
  /\ \/ /\ delays_data' \in BatchResults(Range(delay_airports), {DictValue})
        /\ opc' = "store"
        /\ UNCHANGED <<summary, batch_raised>>
     \/ /\ batch_raised' = TRUE
        /\ OrchRaise
        /\ UNCHANGED delays_data
  /\ UNCHANGED <<runIdle, runStore, runner, airports_data, schedules_data,
                 unique_aircraft, aircraft_data>>

\* 'airports_processed' of the returned dict, line 98
OrchAirportsReported == Len(airports_to_process)

\* data_orchestrator.py lines 87-102: _process_and_store_all has returned;
\* the summary
OrchReturn ==
  /\ mode = "run"
  /\ runner = "orchestrator"
  /\ opc = "storing"
  /\ todo = <<>>
  /\ opc' = "done"
  /\ summary' = [returned |-> TRUE, success |-> TRUE,
                 airports |-> OrchAirportsReported]
  /\ UNCHANGED <<clientVars, runner, airports_data, schedules_data,
                 unique_aircraft, aircraft_data, delays_data, stages,
                 batch_raised>>

\* data_fetcher.py lines 115-122: any exception ends the run with this dict
FetcherFailed ==
  /\ opc' = "done"
  /\ summary' = [returned |-> TRUE, success |-> FALSE, airports |-> 0 - 1]

\* data_fetcher.py lines 43-56: the airports fetched are stored at once
FetcherAirports ==
  /\ runner = "fetcher"
  /\ opc = "airports"
  /\ stages' = stages \cup {"airports"}
  /\ \/ /\ airports_data' \in BatchResults(Range(dashboard_airports), {DictValue})
        /\ LET codes == StoredCodes(airports_data')
           IN  /\ airport' = InsertAirports(airport, sqlite_sequence.airport, codes)
               /\ sqlite_sequence' =
                    [sqlite_sequence EXCEPT !.airport = @ + Len(codes)]
               /\ write_log' = write_log \o WriteEntries("airport", codes)
        /\ opc' = "schedules"
        /\ UNCHANGED <<summary, batch_raised>>
     \/ /\ batch_raised' = TRUE
        /\ FetcherFailed
        /\ UNCHANGED <<airports_data, airport, sqlite_sequence, write_log>>
  /\ UNCHANGED <<runIdle, flights, airport_delays, todo, processing_results,
                 submitted, runner, schedules_data, unique_aircraft,
                 aircraft_data, delays_data>>

\* data_fetcher.py lines 58-81: the schedules are gone through in dict order;
\* len(flights['data']) raises on a null 'data', after the flights of the
\* schedules before it were stored
FetcherFlights ==
  /\ runner = "fetcher"
  /\ opc = "schedules"
  /\ stages' = stages \cup {"schedules"}
  /\ \/ /\ schedules_data' \in BatchResults(Range(Take(dashboard_airports, 2)),
                                           ScheduleValues)
        /\ LET sched == schedules_data'
               lists == {k \in DOMAIN sched : sched[k].kind = "list"}
               raises == \E k \in DOMAIN sched : sched[k].kind = "nulldata"
           IN  /\ IF raises THEN FetcherFailed
                  ELSE opc' = "delays" /\ UNCHANGED summary
               /\ \E before \in SUBSET lists :
                    /\ ~raises => before = lists
                    /\ LET items == FetcherFlightItems(sched, SeqOf(before))
                       IN  /\ flights' = InsertFlights(flights,
                                  [i \in DOMAIN items |-> items[i].data], now)
                           /\ write_log' = write_log \o
                                [i \in DOMAIN items |->
                                   [kind |-> "flight", key |-> items[i].key,
                                    written |-> ~FlightSkipped(items[i].data)]]
        /\ UNCHANGED batch_raised
     \/ /\ batch_raised' = TRUE
        /\ FetcherFailed
        /\ UNCHANGED <<schedules_data, flights, write_log>>
  /\ UNCHANGED <<runIdle, airport, airport_delays, sqlite_sequence, todo,
                 processing_results, submitted, runner, airports_data,
                 unique_aircraft, aircraft_data, delays_data>>

\* 'airports_fetched' of the returned dict, line 110
FetcherAirportsReported == AirportCount(airports_data)

\* data_fetcher.py lines 83-113: the delays of the first airport are fetched
\* and stored, then the summary
FetcherDelays ==
  /\ runner = "fetcher"
  /\ opc = "delays"
  /\ stages' = stages \cup {"delays"}
  /\ delays_data' \in BatchResults({dashboard_airports[1]}, {DictValue})
  /\ LET codes == StoredCodes(delays_data')
     IN  /\ airport_delays' =
              IF codes = <<>> THEN airport_delays
              ELSE DelaysInsertOrReplace(airport_delays,
                     [delay_id |-> sqlite_sequence.airport_delays + 1,
                      airport_iata |-> codes[1], delay_date |-> Date(now),
                      total_flights |-> 0])
         /\ sqlite_sequence' =
              [sqlite_sequence EXCEPT !.airport_delays = @ + Len(codes)]
         /\ write_log' = write_log \o WriteEntries("delays", codes)
  /\ opc' = "done"
  /\ summary' = [returned |-> TRUE, success |-> TRUE,
                 airports |-> FetcherAirportsReported]
  /\ UNCHANGED <<runIdle, airport, flights, todo, processing_results,
                 submitted, runner, airports_data, schedules_data,
                 unique_aircraft, aircraft_data, batch_raised>>

NextRun ==
  \/ RunStart
  \/ ProcessBegin
  \/ \E written \in BOOLEAN : ProcessRecord(written)
  \/ OrchAirports
  \/ OrchSchedules
  \/ OrchExtract
  \/ OrchAircraft
  \/ OrchDelays
  \/ OrchReturn
  \/ FetcherAirports
  \/ FetcherFlights
  \/ FetcherDelays

SpecRun == InitRun /\ [][NextRun]_vars

\* ------------------------------------------- the params of _store_airport
\* A JSON value is a string; "absent" is a key missing from the object and
\* "null" a JSON null.  The nested objects 'country' and 'location' are
\* records whose kind tells an object from a missing key and from null.
ArgCodes == {"DEL", "BOM"}
CountryValues ==
  {[kind |-> "absent", name |-> "absent"], [kind |-> "null", name |-> "absent"],
   [kind |-> "dict", name |-> "absent"], [kind |-> "dict", name |-> "India"]}
LocationValues ==
  {[kind |-> "absent", lat |-> "absent", lon |-> "absent"],
   [kind |-> "null", lat |-> "absent", lon |-> "absent"]}
    \cup [kind : {"dict"}, lat : {"absent", "28"}, lon : {"absent", "77"}]
AirportJson ==
  [icao : {"absent", "VIDP"}, iata : {"absent", "null", "DEL"},
   name : {"absent", "null", "Indira Gandhi"},
   municipalityName : {"absent", "Delhi"}, country : CountryValues,
   continent : {"absent", "Asia"}, location : LocationValues,
   timeZone : {"absent", "Asia/Kolkata"}]

\* {"iata": "DEL"}
MinimalPayload ==
  [icao |-> "absent", iata |-> "DEL", name |-> "absent",
   municipalityName |-> "absent",
   country |-> [kind |-> "absent", name |-> "absent"], continent |-> "absent",
   location |-> [kind |-> "absent", lat |-> "absent", lon |-> "absent"],
   timeZone |-> "absent"]

\* {} : `not data` is true of it
EmptyDict == [MinimalPayload EXCEPT !.iata = "absent"]

\* dict.get(key, default): the default only for a missing key
Get(v, default) == IF v = "absent" THEN default ELSE v

\* str(): None becomes the text 'None'
Str(v) == IF v = "null" THEN "None" ELSE v

\* float(): 0 becomes 0.0, a number stays what it is
Float(v) == v

\* f'Airport {code}'
DefaultName(code) == "Airport " \o code

\* .get on the value of 'country' or 'location' raises AttributeError when
\* that value is None
GetRaises(data) == data.country.kind = "null" \/ data.location.kind = "null"

NoRow ==
  [icao_code |-> "unset", iata_code |-> "unset", name |-> "unset",
   city |-> "unset", country |-> "unset", continent |-> "unset",
   latitude |-> "unset", longitude |-> "unset", timezone |-> "unset"]

\* data_fetcher.py lines 235-259
FetcherParams(code, data) ==
  [icao_code |-> IF data.icao \in {"absent", "null"} THEN code ELSE Str(data.icao),
   iata_code |-> IF data.iata \in {"absent", "null"} THEN code ELSE Str(data.iata),
   name |-> Str(Get(data.name, DefaultName(code))),
   city |-> Str(Get(data.municipalityName, "")),
   country |-> Str(Get(data.country.name, "")),
   continent |-> Str(Get(data.continent, "")),
   latitude |-> Float(Get(data.location.lat, "0")),
   longitude |-> Float(Get(data.location.lon, "0")),
   timezone |-> Str(Get(data.timeZone, ""))]

\* data_orchestrator.py lines 168-178
OrchParams(code, data) ==
  [icao_code |-> Get(data.icao, code),
   iata_code |-> Get(data.iata, code),
   name |-> Get(data.name, ""),
   city |-> Get(data.municipalityName, ""),
   country |-> Get(data.country.name, ""),
   continent |-> Get(data.continent, ""),
   latitude |-> Get(data.location.lat, "0"),
   longitude |-> Get(data.location.lon, "0"),
   timezone |-> Get(data.timeZone, "")]

\* _store_airport(code, data) is called
NormalizeCall(code, data) ==
  /\ mode = "normalize"
  /\ ~raw.given
  /\ raw' = [given |-> TRUE, code |-> code, data |-> data]
  /\ UNCHANGED <<now, request_timestamps, cache, threadVars, mode,
                 remote, batchVars, histVars, storeVars, statVars, runVars,
                 etl_flights, todo, processing_results, write_log, normalized,
                 submitted>>

\* data_fetcher.py lines 220-267: every exception is caught; nothing is built
\* for an empty dict or when a .get raises
FetcherStoreAirport ==
  /\ mode = "normalize"
  /\ raw.given
  /\ ~normalized.built
  /\ normalized' =
       [built |-> TRUE, by |-> "fetcher", threw |-> FALSE,
        ok |-> raw.data # EmptyDict /\ ~GetRaises(raw.data),
        params |-> IF raw.data = EmptyDict \/ GetRaises(raw.data) THEN NoRow
                   ELSE FetcherParams(raw.code, raw.data)]
  /\ UNCHANGED <<now, request_timestamps, cache, threadVars, mode,
                 remote, batchVars, histVars, storeVars, statVars, runVars,
                 etl_flights, todo, processing_results, write_log, raw,
                 submitted>>

\* data_orchestrator.py lines 158-183
OrchStoreAirportParams ==
  /\ mode = "normalize"
  /\ raw.given
  /\ ~normalized.built
  /\ normalized' =
       [built |-> TRUE, by |-> "orchestrator", threw |-> FALSE,
        ok |-> ~GetRaises(raw.data),
        params |-> IF GetRaises(raw.data) THEN NoRow
                   ELSE OrchParams(raw.code, raw.data)]
  /\ UNCHANGED <<now, request_timestamps, cache, threadVars, mode,
                 remote, batchVars, histVars, storeVars, statVars, runVars,
                 etl_flights, todo, processing_results, write_log, raw,
                 submitted>>

InitNormalize ==
  /\ InitCommon
  /\ mode = "normalize"
  /\ runner = "none"
  /\ schema = FlightDatabaseSchema

NextNormalize ==
  \/ \E code \in ArgCodes, data \in AirportJson : NormalizeCall(code, data)
  \/ FetcherStoreAirport
  \/ OrchStoreAirportParams

SpecNormalize == InitNormalize /\ [][NextNormalize]_vars

\* ------------------------------------------------ fetch_api.py: safe_get
\* the defaults of the parameters of safe_get, line 12
retries == 3
backoff == 2

\* the request is url1 (the primary pattern) or url2 (the alternate one)
url1 == 1
url2 == 2

\* what no step of safe_get changes
safeGetIdle == <<request_timestamps, cache, t_now, filtered, mode, runVars,
                 storeVars, extVars, statVars, remote, batchVars, admitted,
                 recorded, gate_calls, invoked, fetched_at, last_hit, only429,
                 stale_miss>>

\* line 16-17: safe_get(url) begins
SafeGetBegin(url) ==
  /\ req' = [req EXCEPT ![1] = url]
  /\ attempt' = [attempt EXCEPT ![1] = 0]
  /\ ret' = [ret EXCEPT ![1] = None]
  /\ http_sent' = [http_sent EXCEPT ![1] = 0]
  /\ answers' = [answers EXCEPT ![1] = <<>>]
  /\ pc' = [pc EXCEPT ![1] = "sg_loop"]

\* fetch_flights_for_airport, lines 43-44: the primary pattern first
SafeGetCall ==
  /\ mode = "safeget"
  /\ pc[1] = "idle"
  /\ now < MaxTime
  /\ SafeGetBegin(url1)
  /\ UNCHANGED <<now, wake, safeGetIdle>>

SafeGetMore_oneMore(i) == i <= retries

\* line 17: for i in range(retries)
SafeGetMore(i) == i < retries

\* lines 17 and 30: the next iteration, or raise last_exc
SafeGetLoop ==
  /\ mode = "safeget"
  /\ pc[1] = "sg_loop"
  /\ wake[1] <= now
  /\ wake' = [wake EXCEPT ![1] = 0]
  /\ IF SafeGetMore(attempt[1])
       THEN /\ pc' = [pc EXCEPT ![1] = "sg_http"]
            /\ UNCHANGED ret
       ELSE /\ pc' = [pc EXCEPT ![1] = "done"]
            /\ ret' = [ret EXCEPT ![1] = Raised]
  /\ UNCHANGED <<now, req, attempt, http_sent, answers, safeGetIdle>>

\* lines 18-28: requests.get and what follows its outcome o; r.json() of a
\* 200 whose body is no JSON raises inside the try block
SafeGetRequest(o) ==
  /\ mode = "safeget"
  /\ pc[1] = "sg_http"
  /\ http_sent' = [http_sent EXCEPT ![1] = @ + 1]
  /\ answers' = [answers EXCEPT ![1] = Append(@, o)]
  /\ IF o \in {"200", "404"}
       THEN /\ ret' = [ret EXCEPT ![1] =
                         IF o = "200" THEN Payload(req[1], now) ELSE None]
            /\ pc' = [pc EXCEPT ![1] = "done"]
            /\ UNCHANGED <<attempt, wake>>
       ELSE /\ wake' = [wake EXCEPT ![1] = now + backoff * (attempt[1] + 1)]
            /\ attempt' = [attempt EXCEPT ![1] = @ + 1]
            /\ pc' = [pc EXCEPT ![1] = "sg_loop"]
            /\ UNCHANGED ret
  /\ UNCHANGED <<now, req, safeGetIdle>>

\* fetch_flights_for_airport, lines 45-51: None of the primary pattern leads
\* to the alternate one
SafeGetAlternate ==
  /\ mode = "safeget"
  /\ pc[1] = "done"
  /\ req[1] = url1
  /\ ret[1] = None
  /\ SafeGetBegin(url2)
  /\ UNCHANGED <<now, wake, safeGetIdle>>

\* fetch_flights_for_airport returns, or the exception of the primary call
\* leaves it; lines 52-53: an exception of the alternate call becomes None
SafeGetReturn ==
  /\ mode = "safeget"
  /\ pc[1] = "done"
  /\ req[1] = url2 \/ ret[1] # None
  /\ pc' = [pc EXCEPT ![1] = "idle"]
  /\ ret' = [ret EXCEPT ![1] =
               IF req[1] = url2 /\ ret[1] = Raised THEN None ELSE @]
  /\ UNCHANGED <<now, req, attempt, wake, http_sent, answers, safeGetIdle>>

InitSafeGet ==
  InitCommon /\ mode = "safeget" /\ runner = "none" /\ schema = FlightDatabaseSchema

NextSafeGet ==
  \/ SafeGetCall
  \/ SafeGetLoop
  \/ \E o \in Outcomes : SafeGetRequest(o)
  \/ SafeGetAlternate
  \/ SafeGetReturn
  \/ Tick

SpecSafeGet == InitSafeGet /\ [][NextSafeGet]_vars

\* ------------------- aerodatabox_client.py: the counters of self.stats
\* The workers of get_multiple_airports run _make_request on the one client.
\* `self.stats[c] += 1` reads the counter and stores the sum in two steps,
\* between which another worker may run.  The gate and the retry loop of
\* lines 63-97 touch no counter and are one step here.
StatsOutcomes == {"200", "404", "failed", "raised"}

statsIdle == <<now, request_timestamps, attempt, t_now, filtered, wake, mode,
               runVars, storeVars, extVars, remote, batchVars, admitted,
               recorded, http_sent, gate_calls, fetched_at, only429, answers,
               stale_miss>>

\* lines 193-198: a worker of the pool takes fetch_one(code)
StatsFetch(t, k) ==
  /\ mode = "stats"
  /\ pc[t] = "idle"
  /\ invoked[k] < MaxFetches
  /\ invoked' = [invoked EXCEPT ![k] = @ + 1]
  /\ req' = [req EXCEPT ![t] = k]
  /\ ret' = [ret EXCEPT ![t] = None]
  /\ last_hit' = [last_hit EXCEPT ![t] = FALSE]
  /\ pc' = [pc EXCEPT ![t] = "st_cache"]
  /\ UNCHANGED <<statsIdle, cache, stats, reg>>

\* lines 56-61: the cache test
StatsCache(t) ==
  /\ mode = "stats"
  /\ pc[t] = "st_cache"
  /\ IF CacheHit(req[t])
       THEN /\ ret' = [ret EXCEPT ![t] = cache[GetCacheKey(req[t])].data]
            /\ last_hit' = [last_hit EXCEPT ![t] = TRUE]
            /\ pc' = [pc EXCEPT ![t] = "hits_r"]
       ELSE /\ pc' = [pc EXCEPT ![t] = "st_http"]
            /\ UNCHANGED <<ret, last_hit>>
  /\ UNCHANGED <<statsIdle, cache, stats, reg, req, invoked>>

\* lines 63-101: how the requests of the call end: a parsed 200 (lines
\* 75-81), a 404 (line 89, no counter), the range exhausted (lines 99-101),
\* or an exception that is not caught
StatsOutcome(t, o) ==
  /\ mode = "stats"
  /\ pc[t] = "st_http"
  /\ cache' = IF o = "200"
                THEN CachePut(GetCacheKey(req[t]),
                              [data |-> Payload(req[t], now), timestamp |-> now])
                ELSE cache
  /\ ret' = [ret EXCEPT ![t] =
               CASE o = "200" -> Payload(req[t], now)
                 [] o = "raised" -> Raised
                 [] OTHER -> None]
  /\ pc' = [pc EXCEPT ![t] = IF o \in {"200", "failed"} THEN "total_r" ELSE "idle"]
  /\ UNCHANGED <<statsIdle, stats, reg, req, invoked, last_hit>>

\* the counter the `+= 1` in progress is about
Counter(t) ==
  CASE pc[t] \in {"hits_r", "hits_w"} -> "cache_hits"
    [] pc[t] \in {"total_r", "total_w"} -> "total_requests"
    [] OTHER -> IF ret[t] = None THEN "failed" ELSE "successful"

\* self.stats[c] += 1, first half: the value of the counter is loaded
StatsRead(t) ==
  /\ mode = "stats"
  /\ pc[t] \in {"hits_r", "total_r", "result_r"}
  /\ reg' = [reg EXCEPT ![t] = stats[Counter(t)]]
  /\ pc' = [pc EXCEPT ![t] =
              CASE pc[t] = "hits_r" -> "hits_w"
                [] pc[t] = "total_r" -> "total_w"
                [] OTHER -> "result_w"]
  /\ UNCHANGED <<statsIdle, cache, stats, req, ret, invoked, last_hit>>

\* self.stats[c] += 1, second half: the sum is stored; after the last
\* counter _make_request returns
StatsWrite(t) ==
  /\ mode = "stats"
  /\ pc[t] \in {"hits_w", "total_w", "result_w"}
  /\ stats' = [stats EXCEPT ![Counter(t)] = reg[t] + 1]
  /\ reg' = [reg EXCEPT ![t] = 0]
  /\ pc' = [pc EXCEPT ![t] = IF pc[t] = "total_w" THEN "result_r" ELSE "idle"]
  /\ UNCHANGED <<statsIdle, cache, req, ret, invoked, last_hit>>

InitStats ==
  InitCommon /\ mode = "stats" /\ runner = "none" /\ schema = FlightDatabaseSchema

NextStats ==
  \/ \E t \in Threads, k \in Keys : StatsFetch(t, k)
  \/ \E t \in Threads : StatsCache(t)
  \/ \E t \in Threads, o \in StatsOutcomes : StatsOutcome(t, o)
  \/ \E t \in Threads : StatsRead(t)
  \/ \E t \in Threads : StatsWrite(t)

SpecStats == InitStats /\ [][NextStats]_vars

FairSpecFetch == SpecFetch /\ WF_vars(ThreadStep(1)) /\ WF_vars(Tick)

\* ================================================================ claims
Times(lst) == Range(lst)

\* no window of rate_limit_window seconds holds more than the ceiling of lst
WindowBound(lst) ==
  \A s \in Times(lst) :
    Cardinality({i \in DOMAIN lst : s <= lst[i] /\ lst[i] < s + rate_limit_window})
      <= max_requests_per_minute

Count(lst, v) == Cardinality({i \in DOMAIN lst : lst[i] = v})

\* C1: for back-to-back _rate_limit() calls of one caller, no window of
\* rate_limit_window seconds contains more than max_requests_per_minute
\* recorded timestamps, nor more than that many admitted requests.
C1_RateLimiterBound ==
  /\ WindowBound(request_timestamps)
  /\ WindowBound(admitted)

\* C2: under every interleaving of the workers' prune and append steps, the
\* timestamp of every returned _rate_limit() call that is still inside the
\* window is in the timestamp list (as often as it was recorded).
C2_NoLostTimestamp ==
  \A ts \in BagToSet(recorded) :
    Count(request_timestamps, ts) >= CopiesIn(ts, recorded)

\* the request of thread t was answered with a payload by the remote less
\* than cache_duration_seconds ago
WithinTTL(t) ==
  /\ fetched_at[req[t]] >= 0
  /\ now - fetched_at[req[t]] < cache_duration_seconds

\* C3: a fetch of a request whose payload was fetched within the cache TTL
\* returns that payload at the cache test, without a _rate_limit() call:
\* the timestamp list is unchanged and no HTTP request is sent.
C3_CacheHitBypassesGate ==
  [][\A t \in Threads :
       (pc[t] = "mr_cache" /\ pc'[t] # "mr_cache" /\ WithinTTL(t))
       => /\ pc'[t] = "done"
          /\ ret'[t] = Payload(req[t], fetched_at[req[t]])
          /\ request_timestamps' = request_timestamps
          /\ gate_calls'[t] = 0
          /\ http_sent'[t] = 0]_vars

C3_Witness ==
  /\ pc[1] = "done"
  /\ last_hit[1]
  /\ ret[1] = Payload(req[1], fetched_at[req[1]])
  /\ now > fetched_at[req[1]]

\* C4: a fetch never sends more than max_retries HTTP requests; a fetch
\* answered 429 every time ends, after exactly max_retries requests, with
\* no payload.
C4_RetryTermination ==
  /\ [](\A t \in Threads : http_sent[t] <= max_retries)
  /\ [](pc[1] = "done" /\ only429[1] /\ http_sent[1] > 0
          => ret[1] = None /\ http_sent[1] = max_retries)
  /\ ((pc[1] = "http" /\ only429[1]) ~> (pc[1] = "done" \/ ~only429[1]))

C4_Witness ==
  /\ pc[1] = "done"
  /\ only429[1]
  /\ http_sent[1] = max_retries
  /\ ret[1] = None

\* the codes whose fetch returned a payload
Succeeded == {c \in Codes : ret[c] # None /\ ret[c] # Raised}

C6_BatchNeverRaises ==
  /\ mpc # "raised"
  /\ mpc \in {"returned", "raised"} => \A c \in Codes : invoked[c] = 1

\* C7: whatever the order of completion, the returned map has one entry per
\* code, fetch_one was invoked exactly once per code, and the value under a
\* code is the value that code's own worker returned.
C7_OneResultPerCode ==
  mpc = "returned" =>
    /\ DOMAIN results = Codes
    /\ \A c \in Codes :
         /\ invoked[c] = 1
         /\ results[c] = ret[c]
         /\ ret[c] # None => ret[c].code = c

C7_Witness ==
  /\ mpc = "returned"
  /\ collected[1] # 1
  /\ \A c \in Codes : results[c] # None

\* C8: the airports count of the run summary is the number of airport codes
\* whose fetch returned a payload.
C8_AirportsCounted ==
  (summary.returned /\ summary.airports >= 0)
    => summary.airports = AirportCount(airports_data)

\* C9: a run reports failure exactly when its airport stage yields no result.
C9_FailureIffNoAirports ==
  summary.returned => (~summary.success <=> AirportCount(airports_data) = 0)

\* C10: when the batch calls return (with failed fetches or with payloads
\* that lack parts or carry nulls), the run executes every later stage and
\* returns its summary: it neither raises nor stops early.
C10_RunSurvivesPartialFailure ==
  (opc \in {"done", "raised"} /\ ~batch_raised)
    => /\ opc = "done"
       /\ summary.returned
       /\ {"airports", "schedules", "delays"} \subseteq stages


\* ---------------------------------------------------------------- storage
\* the rows of a table that have natural key k
RowsOf(table, k) == {i \in DOMAIN table : table[i].iata_code = k}

\* the table as the set of its keyed rows: natural key and attributes
KeyedRows(table) ==
  {<<r.iata_code, r.name>> : r \in {x \in Range(table) : x.iata_code # Null}}

\* the natural key an airport store call writes
AirportKey(e) ==
  IF e.by = "orchestrator"
    THEN (IF e.data.iata = Absent THEN e.code ELSE e.data.iata)
    ELSE (IF e.data.iata \in StoreCodes THEN e.data.iata ELSE e.code)

\* this step is a store call that repeats the previous store call
RepeatsLastStore(kind) ==
  /\ Len(store_log) >= 1
  /\ Len(store_log') = Len(store_log) + 1
  /\ LET a == store_log[Len(store_log)]
         b == store_log'[Len(store_log')]
     IN  /\ a.kind = kind /\ b.kind = kind
         /\ a.by = b.by /\ a.code = b.code /\ a.data = b.data

\* C11: after any sequence of airport upserts the airport table has at most
\* one row per IATA code, and an airport upsert that repeats the previous one
\* leaves the same set of keyed rows
C11_AirportUpsertIdempotent ==
  /\ [](\A k \in StoreCodes : Cardinality(RowsOf(airport, k)) <= 1)
  /\ [][RepeatsLastStore("airport") =>
          KeyedRows(airport') = KeyedRows(airport)]_vars

\* the same airport was stored twice by _store_airport: the second call
\* replaced the row of the first
C11_Witness ==
  /\ Len(store_log) = 2
  /\ store_log[1].kind = "airport" /\ store_log[1].by = "fetcher"
  /\ store_log[1].data.present
  /\ store_log[2].kind = "airport" /\ store_log[2].by = "fetcher"
  /\ store_log[2].code = store_log[1].code
  /\ store_log[2].data = store_log[1].data
  /\ Len(airport) = 1
  /\ airport[1].airport_id = 2

\* C12: the airport_delays table never holds two rows for one airport code
\* and one date
C12_OneDelayRowPerDay ==
  \A i, j \in DOMAIN airport_delays :
    (/\ airport_delays[i].airport_iata = airport_delays[j].airport_iata
     /\ airport_delays[i].delay_date = airport_delays[j].delay_date) => i = j

\* the flight store calls made so far that carry a flight number
FlightStores ==
  {i \in DOMAIN store_log :
     store_log[i].kind = "flight" /\ store_log[i].data.number # Absent}

\* C13: a flight (flight number, scheduled departure) that has been stored,
\* once or several times and at any times, has exactly one row
C13_FlightStoredOnce ==
  \A i \in FlightStores :
    LET f == store_log[i].data
    IN  Cardinality({j \in DOMAIN flights :
                       /\ flights[j].flight_number = f.number
                       /\ flights[j].scheduled_departure = f.scheduled}) = 1

\* the last upsert_airport call for natural key k
LastUpsert(kind, k) ==
  LET idx == {i \in DOMAIN store_log :
                /\ store_log[i].kind = kind
                /\ store_log[i].data.present
                /\ (IF kind = "airport" THEN AirportKey(store_log[i])
                    ELSE store_log[i].data.iata) = k}
  IN  IF idx = {} THEN 0 ELSE CHOOSE i \in idx : \A j \in idx : j <= i

\* C14: upserts are last-write-wins: the row of a natural key carries the
\* attributes of the last record upserted for that key, for _store_airport
\* and for upsert_airport
C14_LastWriteWins ==
  \A k \in StoreCodes :
    /\ LastUpsert("airport", k) # 0 =>
         \A i \in RowsOf(airport, k) :
           airport[i].name = store_log[LastUpsert("airport", k)].data.name
    /\ LastUpsert("etl_airport", k) # 0 =>
         \A i \in RowsOf(etl_airport, k) :
           etl_airport[i].name =
             store_log[LastUpsert("etl_airport", k)].data.name


\* ------------------------------------------------------------ the cache
\* this step receives the answer to an HTTP request of thread t
Answered(t) == Len(answers'[t]) = Len(answers[t]) + 1

LastAnswer(t) == answers[t][Len(answers[t])]

\* C15: every cache entry holds the parsed body of a 200 response for its
\* key, and an answer that is a 404, a 429, a 5xx, a network error or an
\* unparseable body neither creates nor changes a cache entry
C15_NoNegativeCaching ==
  /\ [](\A k \in Keys :
          GetCacheKey(k) \in DOMAIN cache =>
            cache[GetCacheKey(k)].data =
              Payload(k, cache[GetCacheKey(k)].timestamp))
  /\ [][\A t \in Threads :
          (Answered(t) /\ answers'[t][Len(answers'[t])] # "200")
            => cache' = cache]_vars


\* the age of the cache entry of thread t's request
EntryAge(t) == now - cache[GetCacheKey(req[t])].timestamp

\* C16: a fetch that finds an entry whose age has reached the TTL does not
\* return it; a cached payload that is returned is younger than the TTL; the
\* fetch that missed has passed the gate when it sends a request, and a 200
\* answer replaces the entry with the fresh payload and the current time
C16_ExpiredEntryIsMiss ==
  /\ [][\A t \in Threads :
          (/\ pc[t] = "mr_cache" /\ pc'[t] # "mr_cache"
           /\ GetCacheKey(req[t]) \in DOMAIN cache
           /\ EntryAge(t) >= cache_duration_seconds)
            => pc'[t] # "done" /\ stale_miss'[t]]_vars
  /\ [][\A t \in Threads :
          (pc[t] = "mr_cache" /\ pc'[t] = "done")
            => now - ret'[t].at < cache_duration_seconds]_vars
  /\ [](\A t \in Threads :
          (stale_miss[t] /\ pc[t] = "http") => gate_calls[t] >= 1)
  /\ [][\A t \in Threads :
          (/\ stale_miss[t] /\ Answered(t)
           /\ answers'[t][Len(answers'[t])] = "200")
            => /\ ret'[t] = Payload(req[t], now)
               /\ cache'[GetCacheKey(req[t])] =
                    [data |-> Payload(req[t], now), timestamp |-> now]]_vars

\* a fetch found an expired entry, went to the remote and stored the fresh
\* payload
C16_Witness ==
  /\ pc[1] = "done"
  /\ stale_miss[1]
  /\ http_sent[1] >= 1
  /\ ret[1] = Payload(req[1], now)
  /\ cache[GetCacheKey(req[1])].timestamp = now

\* C17: a 404 answer ends the fetch: it returns None at once, the cache is
\* left as it was, and no request of the call follows the 404
C17_NotFoundTerminal ==
  /\ [][\A t \in Threads :
          (Answered(t) /\ answers'[t][Len(answers'[t])] = "404")
            => /\ pc'[t] = "done"
               /\ ret'[t] = None
               /\ cache' = cache]_vars
  /\ [](\A t \in Threads : \A i \in DOMAIN answers[t] :
          answers[t][i] = "404"
            => /\ i = Len(answers[t])
               /\ pc[t] \in {"done", "idle"}
               /\ ret[t] = None)

\* a fetch ended on a 404 that came after a retried answer, with attempts left
C17_Witness ==
  /\ pc[1] = "done"
  /\ Len(answers[1]) = 2
  /\ LastAnswer(1) = "404"
  /\ ret[1] = None
  /\ GetCacheKey(req[1]) \notin DOMAIN cache

\* every answer to the current call of thread t was a 5xx or a network error
OnlyTransient(t) ==
  /\ answers[t] # <<>>
  /\ \A i \in DOMAIN answers[t] : answers[t][i] \in {"500", "neterr"}

\* C18: a fetch answered only by 5xx responses or network errors sends two
\* HTTP requests, no more, and then returns None
C18_TransientRetriedOnce ==
  \A t \in Threads :
    OnlyTransient(t) =>
      /\ http_sent[t] <= 2
      /\ pc[t] = "done" => (http_sent[t] = 2 /\ ret[t] = None)

\* C19: an unparseable 200 body ends the fetch after that one request, with
\* no payload and no cache entry written
C19_ParseFailureNotRetried ==
  \A t \in Threads :
    (answers[t] # <<>> /\ answers[t][1] = "badjson")
      => /\ http_sent[t] = 1
         /\ pc[t] \in {"done", "idle"}
         /\ ret[t] = None

\* C20: every HTTP request of a call is preceded by its own _rate_limit():
\* the call has never sent more requests than it has recorded timestamps
C20_GateBeforeEveryRequest ==
  \A t \in Threads : http_sent[t] <= gate_calls[t]


\* ------------------------------------------------ _process_and_store_all
\* the records handed to the call in progress
GivenRecords ==
  ProcessRecords(airports_data, schedules_data, aircraft_data, delays_data)

\* C21: a write that fails does not end the batch: the records after it stay
\* to be stored, and when the call returns every record of every entity type
\* has been attempted, in order
C21_StoreErrorDoesNotAbort ==
  /\ [][(/\ Len(write_log') = Len(write_log) + 1
         /\ ~write_log'[Len(write_log')].written)
          => todo' = Tail(todo)]_vars
  /\ [](opc = "done" =>
          /\ Len(write_log) = Len(GivenRecords)
          /\ \A i \in DOMAIN write_log :
               /\ write_log[i].kind = GivenRecords[i].kind
               /\ write_log[i].key = GivenRecords[i].key)

\* the write of an airport failed and the delay statistics, a later entity
\* type, were written after it
C21_Witness ==
  /\ opc = "done"
  /\ \E i, j \in DOMAIN write_log :
       /\ i < j
       /\ write_log[i].kind = "airport" /\ ~write_log[i].written
       /\ write_log[j].kind = "delays" /\ write_log[j].written

\* the writes of a kind that succeeded
Written(kind) ==
  {i \in DOMAIN write_log : write_log[i].kind = kind /\ write_log[i].written}

\* C22: each stored counter equals the number of records of its kind whose
\* write succeeded
C22_CountersCountWrites ==
  \A kind \in {"airport", "flight", "aircraft", "delays"} :
    processing_results[CounterOf(kind)] = Cardinality(Written(kind))


\* C23: a raw flight without its natural key is rejected: no row of a flights
\* table lacks its flight number or its flight identifier
C23_KeylessFlightRejected ==
  /\ \A i \in DOMAIN flights : flights[i].flight_number # Absent
  /\ \A i \in DOMAIN etl_flights :
       /\ etl_flights[i].flight_number # Null
       /\ etl_flights[i].flight_id # Null


\* C24: normalising the minimal airport payload {"iata": "DEL"} never throws
\* and gives code DEL and empty or zero name, city, country, continent,
\* latitude, longitude and timezone
C24_MinimalAirportNormalised ==
  (normalized.built /\ raw.data = MinimalPayload) =>
    /\ ~normalized.threw
    /\ normalized.ok
    /\ normalized.params.iata_code = "DEL"
    /\ normalized.params.name = ""
    /\ normalized.params.city = ""
    /\ normalized.params.country = ""
    /\ normalized.params.continent = ""
    /\ normalized.params.latitude = "0"
    /\ normalized.params.longitude = "0"
    /\ normalized.params.timezone = ""


\* ------------------------------------------------------------ the stages
\* the airports of stage (a) that were fetched
FetchedAirports == {c \in DOMAIN airports_data : Truthy(airports_data[c])}

\* C25: the airport rows fetched in stage (a) are written whatever happens in
\* the schedule stage: once the run has gone into that stage and has ended,
\* by returning or by raising, every fetched airport has its row
C25_AirportsCommittedWhateverFollows ==
  ("schedules" \in stages /\ opc \in {"done", "raised"})
    => \A c \in FetchedAirports : \E i \in DOMAIN airport : airport[i].iata_code = c

\* the writes of flights of schedule k that the run attempted
FlightWrites(k) ==
  {i \in DOMAIN write_log : write_log[i].kind = "flight" /\ write_log[i].key = k}

\* C26: the identifiers submitted to each stage of fetch_all_data_strategically
\* stay within the stage's cap: airports, aircraft registrations (each once),
\* delay airports, and the flights stored of each schedule
C26_StageCaps ==
  runner = "orchestrator" =>
    /\ Len(submitted.airports) <= max_airports
    /\ Len(submitted.aircraft) <= max_aircraft
    /\ \A i, j \in DOMAIN submitted.aircraft :
         submitted.aircraft[i] = submitted.aircraft[j] => i = j
    /\ Len(submitted.delays) <= max_delay_airports
    /\ \A k \in DOMAIN schedules_data :
         Cardinality(FlightWrites(k)) <= max_flights_per_airport

\* a finished run in which every cap cut something off
C26_Witness ==
  /\ runner = "orchestrator"
  /\ opc = "done"
  /\ Len(AIRPORT_CODES) > max_airports
  /\ Len(submitted.airports) = max_airports
  /\ Cardinality(unique_aircraft) > max_aircraft
  /\ Len(submitted.aircraft) = max_aircraft
  /\ Len(airports_to_process) > max_delay_airports
  /\ Len(submitted.delays) = max_delay_airports
  /\ \E k \in DOMAIN schedules_data :
       /\ schedules_data[k].kind = "list"
       /\ Len(schedules_data[k].data) > max_flights_per_airport
       /\ Cardinality(FlightWrites(k)) = max_flights_per_airport


\* ---------------------------------------------------------------- safe_get
\* the answers that end safe_get at once
Final(o) == o \in {"200", "404"}

\* C27: safe_get returns the JSON body on the first 200 and None on the first
\* 404, sending nothing after it; otherwise it sends at most `retries`
\* requests and then raises: None is returned for a 404 only
C27_SafeGetOutcome ==
  /\ http_sent[1] <= retries
  /\ http_sent[1] = Len(answers[1])
  /\ \A i \in DOMAIN answers[1] : Final(answers[1][i]) => i = Len(answers[1])
  /\ pc[1] = "done" =>
       LET n == Len(answers[1])
       IN  /\ n >= 1
           /\ answers[1][n] = "200" <=> ret[1].code = req[1]
           /\ answers[1][n] = "404" <=> ret[1] = None
           /\ ~Final(answers[1][n]) <=> ret[1] = Raised
           /\ ret[1] = Raised => n = retries

\* safe_get has raised after `retries` requests that all failed
C27_Witness ==
  /\ pc[1] = "done"
  /\ ret[1] = Raised
  /\ answers[1] = <<"500", "neterr", "429">>


\* ------------------------------------------------------------- the gate
\* C28: a _rate_limit() call that slept because the window was full records
\* the time at which it admits the request, not the time at which it was
\* entered
C28_FreshTimestamp ==
  [][\A t \in Threads :
       (pc[t] = "rl_append" /\ pc'[t] # "rl_append" /\ wake[t] > 0)
       => /\ request_timestamps' # <<>>
          /\ request_timestamps'[Len(request_timestamps')] = now]_vars


\* ---------------------------------------------------------------- backoff
\* C29: a 429 on attempt k (from 0) is followed by a sleep of 2^k seconds,
\* after which the loop goes into attempt k + 1 if that is below max_retries
\* and ends otherwise
C29_BackoffAfter429 ==
  /\ [][\A t \in Threads :
          (/\ pc[t] = "http"
           /\ Len(answers'[t]) = Len(answers[t]) + 1
           /\ answers'[t][Len(answers'[t])] = "429")
          => /\ attempt'[t] = attempt[t] + 1
             /\ wake'[t] = now + 2 ^ attempt[t]
             /\ pc'[t] = "mr_loop"]_vars
  /\ [][\A t \in Threads :
          (pc[t] = "mr_loop" /\ pc'[t] # "mr_loop")
          => /\ wake[t] <= now
             /\ attempt[t] < max_retries => pc'[t] = "rl_filter"
             /\ attempt[t] >= max_retries => pc'[t] = "done"]_vars

\* the third attempt is sent after two 429 answers, 1 + 2 seconds after the
\* first
C29_Witness ==
  /\ pc[1] = "http"
  /\ attempt[1] = 2
  /\ answers[1] = <<"429", "429">>
  /\ now >= 3


\* ------------------------------------------------------------ the counters
\* no worker is inside _make_request
Quiescent == \A t \in Threads : pc[t] = "idle"

\* C30: whenever no request is in flight total_requests = successful +
\* failed, however the workers' counter updates interleave; a cache hit
\* changes cache_hits only
C30_CountersAddUp ==
  /\ [](Quiescent =>
          stats.total_requests = stats.successful + stats.failed)
  /\ [][\A t \in Threads :
          (pc[t] \in {"st_cache", "hits_r", "hits_w"} /\ pc'[t] # pc[t]
             /\ last_hit'[t])
          => \A c \in {"total_requests", "successful", "failed"} :
               stats'[c] = stats[c]]_vars

====
